---- MODULE Spec2Model ----
(***************************************************************************)
(* Receiver worker of wdt (src/ReceiverThread.cpp): the per-connection     *)
(* state machine run by ReceiverThread::start(), its coupling to the       *)
(* threads controller (registry, once-only executors, funnel, condition    *)
(* variable) and to the parent receiver (abort code, checkpoint list).     *)
(*                                                                         *)
(* Every worker is a thread; thread[w] holds the fields of the             *)
(* ReceiverThread object and the position of its thread inside start().    *)
(* Socket and file I/O results are inputs chosen by the environment;       *)
(* sender[w] says what the sender connected to worker w may put on the     *)
(* wire during the session (it never changes).                             *)
(***************************************************************************)
EXTENDS Integers, Sequences, FiniteSets, TLC

VARIABLES thread, parent, controller, checkFailed, sender

vars == <<thread, parent, controller, checkFailed, sender>>

(***************************** bounds ***************************************)
\* number of blocks a sender transfers to one worker
MaxBlocks == 1
\* blockDetails.dataSize of the blocks the senders transfer
DataSize == 2
\* options.max_accept_retries
MaxAcceptRetries == 1
\* the elections of the funnel are counted up to this number
MaxElections == 2
\* bufferSize_, the bytes of the buffer of a worker
BufferSize == 12
\* Protocol::kMinBufLength, the bytes readNextCmd waits for
kMinBufLength == 4
\* the most bytes the encoded header of a FILE_CMD, or an encoded batch of
\* checkpoints, takes
MaxEncodedHeader == 2
\* the most FileChunksInfo entries the parent publishes
MaxEntries == 3
\* the most bytes one encoded FileChunksInfo entry takes
MaxEntryLen == 2
\* the packets of file chunks a worker writes are counted up to this number
MaxPackets == 2

(************************ protocol versions *********************************)
\* first version whose checkpoints carry the last block's progress
CHECKPOINT_OFFSET_VERSION == 3
\* oldest version negotiateProtocol still supports
MinSupportedVersion == 2
\* version the receiver is started with (wdtParent->getProtocolVersion())
ReceiverVersion == 3
\* versions a sender may announce in SETTINGS
SenderVersions == (MinSupportedVersion - 1)..(ReceiverVersion + 1)

\* settings.readTimeoutMillis a sender announces
SenderReadTimeoutMillis == 5000

\* options.enable_download_resumption
enable_download_resumption == TRUE

\* options.isLogBasedResumption()
isLogBasedResumption == TRUE

(*************************** helpers ****************************************)
\* the thread indexes a session may use
ThreadIds == 1..3
\* the receiver threads of the session and their number
Workers == DOMAIN thread
NumThreads == Cardinality(Workers)

Merge(r, s) == [f \in DOMAIN r |-> IF f \in DOMAIN s THEN s[f] ELSE r[f]]

NoBlock == [seqId |-> -1, written |-> 0]

\* Checkpoint(port): no block received, no partially written block
NewCheckpoint(port) == [port |-> port, numBlocks |-> 0, lastBlock |-> NoBlock]

\* Protocol::negotiateProtocol
negotiateProtocol(requested, cur) ==
    IF requested < MinSupportedVersion THEN 0
    ELSE IF requested < cur THEN requested ELSE cur

\* Receiver::getNewCheckpoints(startIndex)
getNewCheckpoints(startIndex) ==
    SubSeq(parent.checkpoints, startIndex + 1, Len(parent.checkpoints))

\* Funnel::getStatus has returned FUNNEL_START once more: the number of the
\* elections so far, counted up to MaxElections in a session that counts them
elected ==
    IF controller.countElections /\ controller.elections < MaxElections
      THEN controller.elections + 1
      ELSE controller.elections

\* ThreadsController::hasThreads(threadIndex, threadState)
hasThreads(w, st) ==
    \E v \in controller.registered \ {w} : controller.threadState[v] = st

(**************************** updates ***************************************)
Set(w, s) == thread' = [thread EXCEPT ![w] = Merge(@, s)]
SetParent(s) == parent' = Merge(parent, s)
SetController(s) == controller' = Merge(controller, s)
markState(w, st) == [controller.threadState EXCEPT ![w] = st]

\* a state handler returns next: start() stores it and loops; shortWrite says
\* whether the handler has ended on a socket write that transferred fewer
\* bytes than requested; the guard of the condition variable, a local of the
\* handler, is gone
Ret(next) ==
    [state |-> next, pc |-> "loop", shortWrite |-> FALSE, holdsCv |-> FALSE]

\* variant of Dispatch: the loop does not test the abort code
DispatchUnchecked(w, st) ==
    /\ w \in DOMAIN thread
    /\ checkFailed = "none"
    /\ thread[w].pc = "loop"
    /\ thread[w].state = st

\* the thread is at the top of the loop of start(), no abort is requested, and
\* the handler of state st is dispatched
Dispatch(w, st) ==
    /\ w \in DOMAIN thread
    /\ checkFailed = "none"
    /\ thread[w].pc = "loop"
    /\ parent.abortCode = "OK"
    /\ thread[w].state = st

\* thread w of the session is at label inside start() or a handler
At(w, label) ==
    /\ w \in DOMAIN thread
    /\ checkFailed = "none"
    /\ thread[w].pc = label

(***************************** senders **************************************)
AllCmds == {"EOF", "DONE_CMD", "FILE_CMD", "SETTINGS_CMD", "SIZE_CMD", "UNKNOWN_CMD"}

\* a sender that may do anything the protocol lets the worker observe
AnySender ==
    [ cmds |-> AllCmds,
      versions |-> SenderVersions,
      checksums |-> BOOLEAN,
      fileChunks |-> BOOLEAN,
      malformed |-> TRUE,
      fileFaults |-> TRUE ]

\* the values of an input that says "went well": FALSE only if faults may occur
Ok(faults) == IF faults THEN BOOLEAN ELSE {TRUE}

\* a sender that never asks for an older version and always asks for checksums
BusySender ==
    [AnySender EXCEPT !.versions = SenderVersions \ {MinSupportedVersion},
                      !.checksums = {TRUE}]

\* a sender that sends settings and DONE, well formed, may ask for the file
\* chunks and may disconnect
PlainSender ==
    [ cmds |-> {"EOF", "SETTINGS_CMD", "DONE_CMD"},
      versions |-> {ReceiverVersion},
      checksums |-> {FALSE},
      fileChunks |-> BOOLEAN,
      malformed |-> FALSE,
      fileFaults |-> FALSE ]

\* a plain sender that never asks for the file chunks
QuietSender == [PlainSender EXCEPT !.fileChunks = {FALSE}]

\* a sender whose first command is not a command of the protocol
GarbageSender ==
    [ cmds |-> {"UNKNOWN_CMD"},
      versions |-> {ReceiverVersion},
      checksums |-> {FALSE},
      fileChunks |-> {FALSE},
      malformed |-> FALSE,
      fileFaults |-> FALSE ]

(***************************** Init *****************************************)
InitThread(w) ==
    [ state |-> "NONE",
      pc |-> "start",
      localError |-> "OK",
      checkpointIndex |-> 0,
      pendingCheckpointIndex |-> 0,
      doneSendFailure |-> FALSE,
      shortWrite |-> FALSE,
      holdsCv |-> FALSE,
      senderReadTimeout |-> -1,
      threadProtocolVersion |-> ReceiverVersion,
      enableChecksum |-> FALSE,
      numBlocks |-> 0,
      checkpoint |-> NewCheckpoint(w),
      newCheckpoints |-> <<>>,
      acceptAttempts |-> 0,
      block |-> NoBlock,
      sentGlobal |-> <<>>,
      deRegisterCalls |-> 0,
      executeAtEndCalls |-> 0 ]

\* a session of one receiver thread per sender of senders, all constructed
\* and registered, none started; counting says whether the elections of the
\* funnel are counted
InitCounting(senders, counting) ==
    /\ thread = [w \in DOMAIN senders |-> InitThread(w)]
    /\ parent = [ abortCode |-> "OK",
                  hasNewTransferStarted |-> FALSE,
                  checkpoints |-> <<>>,
                  blockWriteEntries |-> 0,
                  startNewGlobalSessionCount |-> 0,
                  endCurGlobalSessionCount |-> 0 ]
    /\ controller = [ registered |-> DOMAIN senders,
                      threadState |-> [w \in DOMAIN senders |-> "RUNNING"],
                      funnel |-> "FUNNEL_START",
                      elections |-> 0,
                      countElections |-> counting,
                      atStartHits |-> 0,
                      atEndHits |-> 0 ]
    /\ checkFailed = "none"
    /\ sender = senders

InitSession(senders) == InitCounting(senders, FALSE)

(************************ ReceiverThread::start *****************************)
\* variant of start: the buffer is tested before the scope guard is armed
startUnguarded(w) ==
    /\ At(w, "start")
    /\ \E bufAllocated \in BOOLEAN :
         IF bufAllocated
           THEN Set(w, [state |-> "LISTEN", pc |-> "loop"])
           ELSE Set(w, [localError |-> "MEMORY_ALLOCATION_ERROR", pc |-> "done"])
    /\ UNCHANGED <<parent, controller, checkFailed, sender>>

\* start(), up to the loop: the scope guard is armed, the buffer is tested
start(w) ==
    /\ At(w, "start")
    /\ \E bufAllocated \in BOOLEAN :
         IF bufAllocated
           THEN Set(w, [state |-> "LISTEN", pc |-> "loop"])
           ELSE Set(w, [localError |-> "MEMORY_ALLOCATION_ERROR", pc |-> "guard"])
    /\ UNCHANGED <<parent, controller, checkFailed, sender>>

\* top of the loop: the abort code of the parent is not OK
startAborted(w) ==
    /\ At(w, "loop")
    /\ parent.abortCode # "OK"
    /\ Set(w, [localError |-> "ABORT", pc |-> "guard"])
    /\ UNCHANGED <<parent, controller, checkFailed, sender>>

\* top of the loop: no abort, the state is FAILED or END
startReturn(w) ==
    /\ At(w, "loop")
    /\ parent.abortCode = "OK"
    /\ thread[w].state \in {"FAILED", "END"}
    /\ Set(w, [pc |-> "guard"])
    /\ UNCHANGED <<parent, controller, checkFailed, sender>>

\* the scope guard of start(): controller_->deRegisterThread, then
\* controller_->executeAtEnd, which runs endCurGlobalSession in the last of
\* the threads to call it
scopeExit(w) ==
    /\ At(w, "guard")
    /\ SetController([registered |-> controller.registered \ {w},
                      atEndHits |-> controller.atEndHits + 1])
    /\ IF controller.atEndHits + 1 = NumThreads
         THEN SetParent([endCurGlobalSessionCount |->
                            parent.endCurGlobalSessionCount + 1])
         ELSE UNCHANGED parent
    /\ Set(w, [pc |-> "done",
               deRegisterCalls |-> thread[w].deRegisterCalls + 1,
               executeAtEndCalls |-> thread[w].executeAtEndCalls + 1])
    /\ UNCHANGED <<checkFailed, sender>>

(******************************* LISTEN *************************************)
listen(w) ==
    /\ Dispatch(w, "LISTEN")
    /\ \E listening \in BOOLEAN :
         IF listening
           THEN Set(w, Ret("ACCEPT_FIRST_CONNECTION"))
           ELSE Set(w, [localError |-> "CONN_ERROR"] @@ Ret("FAILED"))
    /\ UNCHANGED <<parent, controller, checkFailed, sender>>

(************************ ACCEPT_FIRST_CONNECTION ***************************)
\* ReceiverThread::reset
reset(w) ==
    [ checkpointIndex |-> 0,
      pendingCheckpointIndex |-> 0,
      doneSendFailure |-> FALSE,
      senderReadTimeout |-> -1,
      localError |-> "OK",
      numBlocks |-> 0,
      newCheckpoints |-> <<>>,
      checkpoint |-> NewCheckpoint(w) ]

\* entry of acceptFirstConnection: reset, close, first attempt ahead
acceptFirstConnection(w) ==
    /\ Dispatch(w, "ACCEPT_FIRST_CONNECTION")
    /\ Set(w, [pc |-> "acceptFirstLoop", acceptAttempts |-> 0] @@ reset(w))
    /\ UNCHANGED <<parent, controller, checkFailed, sender>>

\* variant of acceptFirstLoop: the first connection is accepted without
\* controller_->executeAtStart
acceptFirstLoopUnannounced(w) ==
    /\ At(w, "acceptFirstLoop")
    /\ LET left == [acceptAttempts |-> 0] IN
       IF parent.hasNewTransferStarted
         THEN Set(w, left @@ Ret("ACCEPT_WITH_TIMEOUT"))
         ELSE IF thread[w].acceptAttempts = MaxAcceptRetries
           THEN Set(w, left @@ [localError |-> "CONN_ERROR"] @@ Ret("FAILED"))
           ELSE IF parent.abortCode # "OK"
             THEN Set(w, left @@ Ret("FAILED"))
             ELSE \E accepted \in BOOLEAN :
                    IF accepted
                      THEN Set(w, left @@ Ret("READ_NEXT_CMD"))
                      ELSE Set(w, [acceptAttempts |-> thread[w].acceptAttempts + 1])
    /\ UNCHANGED <<parent, controller, checkFailed, sender>>

\* one iteration of the accept loop of acceptFirstConnection; acceptAttempts
\* is a local variable, gone when the loop is left
acceptFirstLoop(w) ==
    /\ At(w, "acceptFirstLoop")
    /\ LET left == [acceptAttempts |-> 0] IN
       IF parent.hasNewTransferStarted
         THEN Set(w, left @@ Ret("ACCEPT_WITH_TIMEOUT"))
         ELSE IF thread[w].acceptAttempts = MaxAcceptRetries
           THEN Set(w, left @@ [localError |-> "CONN_ERROR"] @@ Ret("FAILED"))
           ELSE IF parent.abortCode # "OK"
             THEN Set(w, left @@ Ret("FAILED"))
             ELSE \E accepted \in BOOLEAN :
                    IF accepted
                      THEN Set(w, left @@ [pc |-> "executeAtStart"])
                      ELSE Set(w, [acceptAttempts |-> thread[w].acceptAttempts + 1])
    /\ UNCHANGED <<parent, controller, checkFailed, sender>>

\* controller_->executeAtStart runs startNewGlobalSession in the first thread
\* to call it; the session is then marked as started
executeAtStart(w) ==
    /\ At(w, "executeAtStart")
    /\ SetController([atStartHits |-> controller.atStartHits + 1])
    /\ IF controller.atStartHits + 1 = 1
         THEN SetParent([startNewGlobalSessionCount |->
                            parent.startNewGlobalSessionCount + 1,
                         hasNewTransferStarted |-> TRUE])
         ELSE UNCHANGED parent
    /\ Set(w, Ret("READ_NEXT_CMD"))
    /\ UNCHANGED <<checkFailed, sender>>

(************************** ACCEPT_WITH_TIMEOUT *****************************)
\* variant of acceptedSession: pendingCheckpointIndex_ is cleared
acceptedSessionCleared(w) ==
    [ pendingCheckpointIndex |-> 0,
      localError |-> "OK" ]

\* variant of acceptedSession: pendingCheckpointIndex_ is left as it is
acceptedSessionKept(w) ==
    [ pendingCheckpointIndex |-> thread[w].pendingCheckpointIndex,
      localError |-> "OK" ]

\* variant of acceptedSession: the pending checkpoints are committed
acceptedSessionCommitted(w) ==
    [ checkpointIndex |-> thread[w].pendingCheckpointIndex,
      localError |-> "OK" ]

\* the session variables acceptWithTimeout resets once a connection is
\* accepted (lines 214-221)
acceptedSession(w) ==
    [ pendingCheckpointIndex |-> thread[w].checkpointIndex,
      localError |-> "OK" ]

acceptWithTimeout(w) ==
    /\ Dispatch(w, "ACCEPT_WITH_TIMEOUT")
    /\ \E in \in {"socketError", "acceptFailed", "accepted"} :
         CASE in = "socketError" ->
                Set(w, [localError |-> "CONN_ERROR"] @@ Ret("END"))
           [] in = "acceptFailed" ->
                Set(w, [localError |-> "CONN_ERROR"] @@
                       Ret(IF thread[w].doneSendFailure
                             THEN "END" ELSE "FINISH_WITH_ERROR"))
           [] in = "accepted" ->
                IF thread[w].doneSendFailure
                  THEN Set(w, Ret("SEND_LOCAL_CHECKPOINT"))
                  ELSE Set(w, acceptedSession(w) @@
                              Ret(IF thread[w].localError # "OK"
                                    THEN "SEND_LOCAL_CHECKPOINT"
                                    ELSE "READ_NEXT_CMD"))
    /\ UNCHANGED <<parent, controller, checkFailed, sender>>

(************************* SEND_LOCAL_CHECKPOINT ****************************)
\* variant of localCheckpoint: the checkpoint of the thread in every case
localCheckpointReal(w) == thread[w].checkpoint

\* the checkpoint sendLocalCheckpoint puts into the buffer
localCheckpoint(w) ==
    IF thread[w].doneSendFailure
      THEN [NewCheckpoint(w) EXCEPT !.numBlocks = -1]
      ELSE thread[w].checkpoint

\* variant of sendLocalCheckpoint: a short write ends the thread with an error
sendLocalCheckpointFinish(w) ==
    /\ Dispatch(w, "SEND_LOCAL_CHECKPOINT")
    /\ \E written \in BOOLEAN :
         IF written
           THEN Set(w, Ret(IF thread[w].doneSendFailure
                             THEN "SEND_DONE_CMD" ELSE "READ_NEXT_CMD"))
           ELSE Set(w, [localError |-> "SOCKET_WRITE_ERROR",
                        shortWrite |-> TRUE] @@
                       Ret("FINISH_WITH_ERROR"))
    /\ UNCHANGED <<parent, controller, checkFailed, sender>>

sendLocalCheckpoint(w) ==
    /\ Dispatch(w, "SEND_LOCAL_CHECKPOINT")
    /\ \E written \in BOOLEAN :
         IF written
           THEN Set(w, Ret(IF thread[w].doneSendFailure
                             THEN "SEND_DONE_CMD" ELSE "READ_NEXT_CMD"))
           ELSE Set(w, [localError |-> "SOCKET_WRITE_ERROR",
                        shortWrite |-> TRUE] @@
                       Ret("ACCEPT_WITH_TIMEOUT"))
    /\ UNCHANGED <<parent, controller, checkFailed, sender>>

(***************************** READ_NEXT_CMD ********************************)
\* what the sender puts on the wire where a command is expected; a sender
\* transfers at most MaxBlocks blocks to a worker
SenderCmds(w) ==
    sender[w].cmds \ (IF thread[w].numBlocks < MaxBlocks THEN {} ELSE {"FILE_CMD"})

\* variant of readNextCmd: an unknown command is not recorded as an error
readNextCmdUnrecorded(w) ==
    /\ Dispatch(w, "READ_NEXT_CMD")
    /\ \E cmd \in SenderCmds(w) :
         CASE cmd = "EOF" ->
                Set(w, [localError |-> "SOCKET_READ_ERROR"] @@
                       Ret("ACCEPT_WITH_TIMEOUT"))
           [] cmd = "DONE_CMD" -> Set(w, Ret("PROCESS_DONE_CMD"))
           [] cmd = "FILE_CMD" -> Set(w, Ret("PROCESS_FILE_CMD"))
           [] cmd = "SETTINGS_CMD" -> Set(w, Ret("PROCESS_SETTINGS_CMD"))
           [] cmd = "SIZE_CMD" -> Set(w, Ret("PROCESS_SIZE_CMD"))
           [] OTHER -> Set(w, Ret("FINISH_WITH_ERROR"))
    /\ UNCHANGED <<parent, controller, checkFailed, sender>>

readNextCmd(w) ==
    /\ Dispatch(w, "READ_NEXT_CMD")
    /\ \E cmd \in SenderCmds(w) :
         CASE cmd = "EOF" ->
                Set(w, [localError |-> "SOCKET_READ_ERROR"] @@
                       Ret("ACCEPT_WITH_TIMEOUT"))
           [] cmd = "DONE_CMD" -> Set(w, Ret("PROCESS_DONE_CMD"))
           [] cmd = "FILE_CMD" -> Set(w, Ret("PROCESS_FILE_CMD"))
           [] cmd = "SETTINGS_CMD" -> Set(w, Ret("PROCESS_SETTINGS_CMD"))
           [] cmd = "SIZE_CMD" -> Set(w, Ret("PROCESS_SIZE_CMD"))
           [] OTHER ->
                Set(w, [localError |-> "PROTOCOL_ERROR"] @@
                       Ret("FINISH_WITH_ERROR"))
    /\ UNCHANGED <<parent, controller, checkFailed, sender>>

(************************ PROCESS_SETTINGS_CMD ******************************)
processSettingsCmd(w) ==
    /\ Dispatch(w, "PROCESS_SETTINGS_CMD")
    /\ \E versionDecoded, settingsDecoded, idMatches \in Ok(sender[w].malformed),
          senderProtocolVersion \in sender[w].versions,
          enableChecksum \in sender[w].checksums,
          sendFileChunks \in sender[w].fileChunks :
         LET cur == thread[w].threadProtocolVersion
             negotiated == negotiateProtocol(senderProtocolVersion, cur)
             adopted == IF senderProtocolVersion # cur THEN negotiated ELSE cur
         IN
         IF ~versionDecoded
           THEN Set(w, [localError |-> "PROTOCOL_ERROR"] @@ Ret("FINISH_WITH_ERROR"))
         ELSE IF senderProtocolVersion # cur /\ negotiated = 0
           THEN Set(w, [localError |-> "VERSION_INCOMPATIBLE"] @@
                       Ret("SEND_ABORT_CMD"))
         ELSE IF senderProtocolVersion # cur /\ negotiated # senderProtocolVersion
           THEN Set(w, [threadProtocolVersion |-> negotiated,
                        localError |-> "VERSION_MISMATCH"] @@ Ret("SEND_ABORT_CMD"))
         ELSE IF ~settingsDecoded
           THEN Set(w, [threadProtocolVersion |-> adopted,
                        localError |-> "PROTOCOL_ERROR"] @@ Ret("FINISH_WITH_ERROR"))
         ELSE IF ~idMatches
           THEN Set(w, [threadProtocolVersion |-> adopted,
                        localError |-> "ID_MISMATCH"] @@ Ret("SEND_ABORT_CMD"))
         ELSE Set(w, [threadProtocolVersion |-> adopted,
                      senderReadTimeout |-> SenderReadTimeoutMillis,
                      enableChecksum |-> enableChecksum] @@
                     Ret(IF sendFileChunks THEN "SEND_FILE_CHUNKS"
                                           ELSE "READ_NEXT_CMD"))
    /\ UNCHANGED <<parent, controller, checkFailed, sender>>

(************************** PROCESS_FILE_CMD ********************************)
\* seqId of the blocks a sender transfers
SeqIds == 0..(MaxBlocks - 1)

\* the funnel after the first-FILE_CMD block of processFileCmd: a thread that
\* gets FUNNEL_START writes the log header and reports success at once
firstFileFunnel(w) ==
    IF /\ enable_download_resumption
       /\ thread[w].numBlocks = 0
       /\ controller.funnel = "FUNNEL_START"
      THEN [funnel |-> "FUNNEL_END", elections |-> elected]
      ELSE [funnel |-> controller.funnel]

\* variant of writtenGuard: the progress of the block is not recorded
writtenGuardDropped(w, seqId, written) ==
    [thread[w].checkpoint EXCEPT !.lastBlock = NoBlock]

\* writtenGuard of processFileCmd, run when it was not dismissed
writtenGuard(w, seqId, written) ==
    IF thread[w].threadProtocolVersion >= CHECKPOINT_OFFSET_VERSION
      THEN [thread[w].checkpoint EXCEPT
              !.lastBlock = [seqId |-> seqId, written |-> written]]
      ELSE [thread[w].checkpoint EXCEPT !.lastBlock = NoBlock]

\* processFileCmd from its entry to the first write of payload (lines 356-463)
processFileCmd(w) ==
    /\ Dispatch(w, "PROCESS_FILE_CMD")
    /\ SetController(firstFileFunnel(w))
    /\ \E header \in IF sender[w].malformed
                       THEN {"short", "lengthMismatch", "undecodable", "decoded"}
                       ELSE {"short", "decoded"},
          seqId \in SeqIds, opened, writeOk \in Ok(sender[w].fileFaults),
          inBuffer \in 0..DataSize :
         LET resetLast == [thread[w].checkpoint EXCEPT !.lastBlock = NoBlock]
             commit == [checkpointIndex |-> thread[w].pendingCheckpointIndex]
         IN
         CASE header = "short" ->
                /\ Set(w, [checkpoint |-> resetLast,
                           localError |-> "SOCKET_READ_ERROR"] @@
                          Ret("ACCEPT_WITH_TIMEOUT"))
                /\ UNCHANGED checkFailed
           [] header = "lengthMismatch" ->
                /\ Set(w, [checkpoint |-> resetLast])
                /\ checkFailed' = "headerLen"
           [] header = "undecodable" ->
                /\ Set(w, [checkpoint |-> resetLast,
                           localError |-> "PROTOCOL_ERROR"] @@
                          Ret("FINISH_WITH_ERROR"))
                /\ UNCHANGED checkFailed
           [] header = "decoded" ->
                /\ UNCHANGED checkFailed
                /\ IF ~opened
                     THEN Set(w, [checkpoint |-> writtenGuard(w, seqId, 0),
                                  localError |-> "FILE_WRITE_ERROR"] @@ commit @@
                                 Ret("SEND_ABORT_CMD"))
                   ELSE IF ~writeOk
                     THEN Set(w, [checkpoint |-> writtenGuard(w, seqId, 0),
                                  localError |-> "FILE_WRITE_ERROR"] @@ commit @@
                                 Ret("SEND_ABORT_CMD"))
                   ELSE Set(w, [checkpoint |-> resetLast,
                                block |-> [seqId |-> seqId, written |-> inBuffer],
                                pc |-> "processFileLoop"] @@ commit)
    /\ UNCHANGED <<parent, sender>>

\* one iteration of the payload loop of processFileCmd (lines 464-489), and
\* the test after it (lines 490-497)
processFileLoop(w) ==
    /\ At(w, "processFileLoop")
    /\ thread[w].block.written < DataSize
    /\ LET b == thread[w].block
           partial == [checkpoint |-> writtenGuard(w, b.seqId, b.written),
                       block |-> NoBlock]
       IN
       IF parent.abortCode # "OK"
         THEN Set(w, partial @@ Ret("FAILED"))
         ELSE \E nres \in 0..(DataSize - b.written),
                   writeOk \in Ok(sender[w].fileFaults) :
                IF nres = 0
                  THEN Set(w, partial @@ [localError |-> "SOCKET_READ_ERROR"] @@
                              Ret("ACCEPT_WITH_TIMEOUT"))
                ELSE IF ~writeOk
                  THEN Set(w, partial @@ [localError |-> "FILE_WRITE_ERROR"] @@
                              Ret("SEND_ABORT_CMD"))
                ELSE Set(w, [block |-> [b EXCEPT !.written = b.written + nres]])
    /\ UNCHANGED <<parent, controller, checkFailed, sender>>

\* the transfer log after addBlockWriteEntry (lines 557-561)
addBlockWriteEntry ==
    IF isLogBasedResumption
      THEN [blockWriteEntries |-> parent.blockWriteEntries + 1]
      ELSE [blockWriteEntries |-> parent.blockWriteEntries]

\* variant of processFileEnd: the block is counted and logged before the
\* footer is compared
processFileEndUnverified(w) ==
    /\ At(w, "processFileLoop")
    /\ thread[w].block.written = DataSize
    /\ \E footer \in IF sender[w].malformed
                       THEN {"short", "notFooter", "undecodable", "mismatch", "match"}
                       ELSE {"short", "mismatch", "match"} :
         LET counted == [numBlocks |-> thread[w].numBlocks + 1,
                         checkpoint |-> [thread[w].checkpoint EXCEPT
                                           !.numBlocks = @ + 1]]
         IN
         /\ SetParent(addBlockWriteEntry)
         /\ IF thread[w].enableChecksum /\ footer \in {"short", "mismatch"}
              THEN Set(w, counted @@
                          [block |-> NoBlock,
                           localError |-> IF footer = "short"
                                            THEN "SOCKET_READ_ERROR"
                                            ELSE "CHECKSUM_MISMATCH"] @@
                          Ret("ACCEPT_WITH_TIMEOUT"))
            ELSE IF thread[w].enableChecksum /\ footer \in {"notFooter", "undecodable"}
              THEN Set(w, counted @@
                          [block |-> NoBlock, localError |-> "PROTOCOL_ERROR"] @@
                          Ret("FINISH_WITH_ERROR"))
            ELSE Set(w, counted @@ [block |-> NoBlock] @@ Ret("READ_NEXT_CMD"))
    /\ UNCHANGED <<controller, checkFailed, sender>>

\* processFileCmd once the whole payload is written (lines 498-565)
processFileEnd(w) ==
    /\ At(w, "processFileLoop")
    /\ thread[w].block.written = DataSize
    /\ \E footer \in IF sender[w].malformed
                       THEN {"short", "notFooter", "undecodable", "mismatch", "match"}
                       ELSE {"short", "mismatch", "match"} :
         IF thread[w].enableChecksum /\ footer \in {"short", "mismatch"}
           THEN /\ Set(w, [block |-> NoBlock,
                           localError |-> IF footer = "short"
                                            THEN "SOCKET_READ_ERROR"
                                            ELSE "CHECKSUM_MISMATCH"] @@
                          Ret("ACCEPT_WITH_TIMEOUT"))
                /\ UNCHANGED parent
         ELSE IF thread[w].enableChecksum /\ footer \in {"notFooter", "undecodable"}
           THEN /\ Set(w, [block |-> NoBlock, localError |-> "PROTOCOL_ERROR"] @@
                          Ret("FINISH_WITH_ERROR"))
                /\ UNCHANGED parent
         ELSE /\ Set(w, [block |-> NoBlock,
                         numBlocks |-> thread[w].numBlocks + 1,
                         checkpoint |-> [thread[w].checkpoint EXCEPT
                                           !.numBlocks = @ + 1]] @@
                        Ret("READ_NEXT_CMD"))
              /\ SetParent(addBlockWriteEntry)
    /\ UNCHANGED <<controller, checkFailed, sender>>

(********************* PROCESS_DONE_CMD, PROCESS_SIZE_CMD *******************)
\* variant of processDoneCmd: the pending checkpoints are committed before
\* the command is validated
processDoneCmdEager(w) ==
    /\ Dispatch(w, "PROCESS_DONE_CMD")
    /\ \E wellFormed \in Ok(sender[w].malformed) :
         LET commit == [checkpointIndex |-> thread[w].pendingCheckpointIndex] IN
         IF ~wellFormed
           THEN Set(w, [localError |-> "PROTOCOL_ERROR"] @@ commit @@
                       Ret("FINISH_WITH_ERROR"))
           ELSE Set(w, commit @@ Ret("WAIT_FOR_FINISH_OR_NEW_CHECKPOINT"))
    /\ UNCHANGED <<parent, controller, checkFailed, sender>>

processDoneCmd(w) ==
    /\ Dispatch(w, "PROCESS_DONE_CMD")
    /\ \E wellFormed \in Ok(sender[w].malformed) :
         IF ~wellFormed
           THEN Set(w, [localError |-> "PROTOCOL_ERROR"] @@ Ret("FINISH_WITH_ERROR"))
           ELSE Set(w, [checkpointIndex |-> thread[w].pendingCheckpointIndex] @@
                       Ret("WAIT_FOR_FINISH_OR_NEW_CHECKPOINT"))
    /\ UNCHANGED <<parent, controller, checkFailed, sender>>

processSizeCmd(w) ==
    /\ Dispatch(w, "PROCESS_SIZE_CMD")
    /\ \E decoded \in Ok(sender[w].malformed) :
         IF decoded
           THEN Set(w, Ret("READ_NEXT_CMD"))
           ELSE Set(w, [localError |-> "PROTOCOL_ERROR"] @@ Ret("FINISH_WITH_ERROR"))
    /\ UNCHANGED <<parent, controller, checkFailed, sender>>

(*************************** SEND_FILE_CHUNKS *******************************)
\* one iteration of the funnel loop of sendFileChunks: getStatus and, for
\* FUNNEL_END and FUNNEL_PROGRESS, the byte written to the sender
funnelIteration(w) ==
    \E written \in BOOLEAN :
      CASE controller.funnel = "FUNNEL_END" ->
             /\ UNCHANGED controller
             /\ IF written
                  THEN Set(w, Ret("READ_NEXT_CMD"))
                  ELSE Set(w, [localError |-> "SOCKET_WRITE_ERROR",
                               shortWrite |-> TRUE] @@
                              Ret("ACCEPT_WITH_TIMEOUT"))
        [] controller.funnel = "FUNNEL_PROGRESS" ->
             /\ UNCHANGED controller
             /\ IF written
                  THEN Set(w, [pc |-> "funnelWait"])
                  ELSE Set(w, [localError |-> "SOCKET_WRITE_ERROR",
                               shortWrite |-> TRUE] @@
                              Ret("ACCEPT_WITH_TIMEOUT"))
        [] controller.funnel = "FUNNEL_START" ->
             /\ written
             /\ SetController([funnel |-> "FUNNEL_PROGRESS", elections |-> elected])
             /\ Set(w, [pc |-> "funnelElected"])

\* entry of sendFileChunks and the first iteration of its loop
sendFileChunks(w) ==
    /\ Dispatch(w, "SEND_FILE_CHUNKS")
    /\ IF thread[w].senderReadTimeout > 0
         THEN funnelIteration(w) /\ UNCHANGED checkFailed
         ELSE checkFailed' = "senderReadTimeout" /\ UNCHANGED <<thread, controller>>
    /\ UNCHANGED <<parent, sender>>

\* execFunnel->wait is over: the next iteration of the loop
sendFileChunksWait(w) ==
    /\ At(w, "funnelWait")
    /\ funnelIteration(w)
    /\ UNCHANGED <<parent, checkFailed, sender>>

\* variant of sendFileChunksElected: a failure is not reported to the funnel
sendFileChunksElectedSilent(w) ==
    /\ At(w, "funnelElected")
    /\ \E out \in {"envelopeShort", "chunksShort", "noAck", "acked"} :
         CASE out = "envelopeShort" ->
                /\ Set(w, [localError |-> "SOCKET_READ_ERROR",
                           shortWrite |-> TRUE] @@
                          Ret("ACCEPT_WITH_TIMEOUT"))
                /\ UNCHANGED controller
           [] out = "chunksShort" ->
                /\ Set(w, [localError |-> "SOCKET_WRITE_ERROR",
                           shortWrite |-> TRUE] @@
                          Ret("ACCEPT_WITH_TIMEOUT"))
                /\ UNCHANGED controller
           [] out = "noAck" ->
                /\ Set(w, [localError |-> "SOCKET_READ_ERROR"] @@
                          Ret("ACCEPT_WITH_TIMEOUT"))
                /\ UNCHANGED controller
           [] out = "acked" ->
                /\ Set(w, Ret("READ_NEXT_CMD"))
                /\ SetController([funnel |-> "FUNNEL_END"])
    /\ UNCHANGED <<parent, checkFailed, sender>>

\* the FUNNEL_START case of sendFileChunks: the elected thread sends the chunks
sendFileChunksElected(w) ==
    /\ At(w, "funnelElected")
    /\ \E out \in {"envelopeShort", "chunksShort", "noAck", "acked"} :
         CASE out = "envelopeShort" ->
                /\ Set(w, [localError |-> "SOCKET_READ_ERROR",
                           shortWrite |-> TRUE] @@
                          Ret("ACCEPT_WITH_TIMEOUT"))
                /\ SetController([funnel |-> "FUNNEL_START"])
           [] out = "chunksShort" ->
                /\ Set(w, [localError |-> "SOCKET_WRITE_ERROR",
                           shortWrite |-> TRUE] @@
                          Ret("ACCEPT_WITH_TIMEOUT"))
                /\ SetController([funnel |-> "FUNNEL_START"])
           [] out = "noAck" ->
                /\ Set(w, [localError |-> "SOCKET_READ_ERROR"] @@
                          Ret("ACCEPT_WITH_TIMEOUT"))
                /\ SetController([funnel |-> "FUNNEL_START"])
           [] out = "acked" ->
                /\ Set(w, Ret("READ_NEXT_CMD"))
                /\ SetController([funnel |-> "FUNNEL_END"])
    /\ UNCHANGED <<parent, checkFailed, sender>>

(************************ SEND_GLOBAL_CHECKPOINTS ***************************)
\* variant of pendingAfterSend: the size of the batch alone
pendingAfterSendBatch(w) == Len(thread[w].newCheckpoints)

\* pendingCheckpointIndex_ once the batch is written (line 729)
pendingAfterSend(w) ==
    thread[w].checkpointIndex + Len(thread[w].newCheckpoints)

\* variant of sendGlobalCheckpoint: a short write is tried again
sendGlobalCheckpointRetry(w) ==
    /\ Dispatch(w, "SEND_GLOBAL_CHECKPOINTS")
    /\ \E written \in BOOLEAN :
         IF written
           THEN Set(w, [pendingCheckpointIndex |-> pendingAfterSend(w),
                        sentGlobal |-> thread[w].newCheckpoints] @@
                       Ret("READ_NEXT_CMD"))
           ELSE Set(w, [shortWrite |-> TRUE] @@ Ret("SEND_GLOBAL_CHECKPOINTS"))
    /\ UNCHANGED <<parent, controller, checkFailed, sender>>

sendGlobalCheckpoint(w) ==
    /\ Dispatch(w, "SEND_GLOBAL_CHECKPOINTS")
    /\ \E written \in BOOLEAN :
         IF written
           THEN Set(w, [pendingCheckpointIndex |-> pendingAfterSend(w),
                        sentGlobal |-> thread[w].newCheckpoints] @@
                       Ret("READ_NEXT_CMD"))
           ELSE Set(w, [localError |-> "SOCKET_WRITE_ERROR",
                        shortWrite |-> TRUE] @@
                       Ret("ACCEPT_WITH_TIMEOUT"))
    /\ UNCHANGED <<parent, controller, checkFailed, sender>>

(***************************** SEND_ABORT_CMD *******************************)
\* variant of sendAbortCmd: the thread finishes whatever the error is
sendAbortCmdFinish(w) ==
    /\ Dispatch(w, "SEND_ABORT_CMD")
    /\ \E written \in BOOLEAN :
         Set(w, [shortWrite |-> ~written] @@ Ret("FINISH_WITH_ERROR"))
    /\ UNCHANGED <<parent, controller, checkFailed, sender>>

\* the result of the write of ABORT is not looked at (line 742)
sendAbortCmd(w) ==
    /\ Dispatch(w, "SEND_ABORT_CMD")
    /\ \E written \in BOOLEAN :
         Set(w, [shortWrite |-> ~written] @@
                Ret(IF thread[w].localError = "VERSION_MISMATCH"
                      THEN "ACCEPT_WITH_TIMEOUT" ELSE "FINISH_WITH_ERROR"))
    /\ UNCHANGED <<parent, controller, checkFailed, sender>>

(***************************** SEND_DONE_CMD ********************************)
sendDoneCmd(w) ==
    /\ Dispatch(w, "SEND_DONE_CMD")
    /\ \E out \in {"writeFailed", "noAck", "noEof", "acked"} :
         CASE out = "writeFailed" ->
                Set(w, [doneSendFailure |-> TRUE,
                        localError |-> "SOCKET_WRITE_ERROR",
                        shortWrite |-> TRUE] @@
                       Ret("ACCEPT_WITH_TIMEOUT"))
           [] out \in {"noAck", "noEof"} ->
                Set(w, [doneSendFailure |-> TRUE,
                        localError |-> "SOCKET_READ_ERROR"] @@
                       Ret("ACCEPT_WITH_TIMEOUT"))
           [] out = "acked" -> Set(w, Ret("END"))
    /\ UNCHANGED <<parent, controller, checkFailed, sender>>

(**************************** FINISH_WITH_ERROR *****************************)
finishWithError(w) ==
    /\ Dispatch(w, "FINISH_WITH_ERROR")
    /\ IF thread[w].localError # "OK"
         THEN /\ SetParent([checkpoints |->
                               Append(parent.checkpoints, thread[w].checkpoint)])
              /\ SetController([threadState |-> markState(w, "FINISHED")])
              /\ Set(w, Ret("END"))
              /\ UNCHANGED checkFailed
         ELSE /\ checkFailed' = "localErrorCode"
              /\ UNCHANGED <<thread, parent, controller>>
    /\ UNCHANGED sender

(******************** WAIT_FOR_FINISH_OR_NEW_CHECKPOINT *********************)
\* variant of checkForFinishOrNewCheckpoints: the thread does not look at
\* the states of the other threads
checkForFinishAlone(w, undecided) ==
    LET checkpoints == getNewCheckpoints(thread[w].checkpointIndex) IN
    IF checkpoints # <<>>
      THEN /\ Set(w, [newCheckpoints |-> checkpoints] @@
                     Ret("SEND_GLOBAL_CHECKPOINTS"))
           /\ SetController([threadState |-> markState(w, "RUNNING")])
      ELSE /\ Set(w, Ret("SEND_DONE_CMD"))
           /\ SetController([threadState |-> markState(w, "FINISHED")])

\* checkForFinishOrNewCheckpoints, called with the mutex of the condition
\* variable held; undecided is what the caller does when it returns
\* WAIT_FOR_FINISH_OR_NEW_CHECKPOINT
checkForFinishOrNewCheckpoints(w, undecided) ==
    LET checkpoints == getNewCheckpoints(thread[w].checkpointIndex) IN
    IF checkpoints # <<>>
      THEN /\ Set(w, [newCheckpoints |-> checkpoints] @@
                     Ret("SEND_GLOBAL_CHECKPOINTS"))
           /\ SetController([threadState |-> markState(w, "RUNNING")])
    ELSE IF ~hasThreads(w, "RUNNING")
      THEN /\ Set(w, Ret("SEND_DONE_CMD"))
           /\ SetController([threadState |-> markState(w, "FINISHED")])
    ELSE /\ Set(w, undecided)
         /\ UNCHANGED controller

\* variant of waitForFinishOrNewCheckpoint: the thread is not marked WAITING
waitForFinishOrNewCheckpointRunning(w) ==
    /\ Dispatch(w, "WAIT_FOR_FINISH_OR_NEW_CHECKPOINT")
    /\ IF thread[w].localError = "OK"
         THEN /\ Set(w, [pc |-> "waitAcquire"])
              /\ UNCHANGED <<checkFailed, controller>>
         ELSE /\ checkFailed' = "localErrorCode"
              /\ UNCHANGED <<thread, controller>>
    /\ UNCHANGED <<parent, sender>>

\* entry of waitForFinishOrNewCheckpoint (lines 818-823)
waitForFinishOrNewCheckpoint(w) ==
    /\ Dispatch(w, "WAIT_FOR_FINISH_OR_NEW_CHECKPOINT")
    /\ IF thread[w].localError = "OK"
         THEN /\ SetController([threadState |-> markState(w, "WAITING")])
              /\ Set(w, [pc |-> "waitAcquire"])
              /\ UNCHANGED checkFailed
         ELSE /\ checkFailed' = "localErrorCode"
              /\ UNCHANGED <<thread, controller>>
    /\ UNCHANGED <<parent, sender>>

\* top of the loop: the mutex is acquired, first check, then guard.wait
\* releases the mutex (lines 825-834)
waitFirstCheck(w) ==
    /\ At(w, "waitAcquire")
    /\ IF thread[w].senderReadTimeout > 0
         THEN /\ checkForFinishOrNewCheckpoints(w, [pc |-> "waitSleep"])
              /\ UNCHANGED checkFailed
         ELSE /\ checkFailed' = "senderReadTimeout"
              /\ UNCHANGED <<thread, controller>>
    /\ UNCHANGED <<parent, sender>>

\* guard.wait returns with the mutex held (notified or timed out): second
\* check, then the mutex is released (lines 836-841)
waitSecondCheck(w) ==
    /\ At(w, "waitSleep")
    /\ checkForFinishOrNewCheckpoints(w, [pc |-> "waitKeepAlive"])
    /\ UNCHANGED <<parent, checkFailed, sender>>

\* the WAIT command that keeps the sender alive (lines 842-850)
waitKeepAlive(w) ==
    /\ At(w, "waitKeepAlive")
    /\ \E written \in BOOLEAN :
         IF written
           THEN Set(w, [pc |-> "waitAcquire"]) /\ UNCHANGED controller
           ELSE /\ Set(w, [localError |-> "SOCKET_WRITE_ERROR",
                           shortWrite |-> TRUE] @@
                          Ret("ACCEPT_WITH_TIMEOUT"))
                /\ SetController([threadState |-> markState(w, "RUNNING")])
    /\ UNCHANGED <<parent, checkFailed, sender>>

(************** the mutex of WAIT_FOR_FINISH_OR_CHECKPOINT_CV ***************)
(* waitForFinishOrNewCheckpoint and finishWithError once more, step by step *)
(* around the mutex of the condition variable: holdsCv of a thread says     *)
(* that its guard holds the mutex.                                          *)

\* no guard holds the mutex
cvFree == \A v \in Workers : ~thread[v].holdsCv

\* cv->acquire() at the top of the loop (lines 825-827)
waitLock(w) ==
    /\ At(w, "waitAcquire")
    /\ IF thread[w].senderReadTimeout > 0
         THEN /\ cvFree
              /\ Set(w, [holdsCv |-> TRUE, pc |-> "waitHeld"])
              /\ UNCHANGED checkFailed
         ELSE /\ checkFailed' = "senderReadTimeout"
              /\ UNCHANGED thread
    /\ UNCHANGED <<parent, controller, sender>>

\* the first check, with the mutex held; guard.wait gives the mutex up
\* (lines 828-834)
waitCheckHeld(w) ==
    /\ At(w, "waitHeld")
    /\ checkForFinishOrNewCheckpoints(w, [pc |-> "waitSleep", holdsCv |-> FALSE])
    /\ UNCHANGED <<parent, checkFailed, sender>>

\* guard.wait returns, notified or timed out, with the mutex held again
waitWake(w) ==
    /\ At(w, "waitSleep")
    /\ cvFree
    /\ Set(w, [holdsCv |-> TRUE, pc |-> "waitWoken"])
    /\ UNCHANGED <<parent, controller, checkFailed, sender>>

\* variant of waitCheckWoken: the guard lives on to the end of the iteration
waitCheckWokenHeld(w) ==
    /\ At(w, "waitWoken")
    /\ checkForFinishOrNewCheckpoints(w, [pc |-> "waitKeepAlive"])
    /\ UNCHANGED <<parent, checkFailed, sender>>

\* the second check, with the mutex held; the scope of the guard ends
\* (lines 836-842)
waitCheckWoken(w) ==
    /\ At(w, "waitWoken")
    /\ checkForFinishOrNewCheckpoints(w, [pc |-> "waitKeepAlive",
                                          holdsCv |-> FALSE])
    /\ UNCHANGED <<parent, checkFailed, sender>>

\* finishWithError up to socket_->closeAll() (lines 787-793)
finishCloseAll(w) ==
    /\ Dispatch(w, "FINISH_WITH_ERROR")
    /\ IF thread[w].localError # "OK"
         THEN Set(w, [pc |-> "finishAcquire"]) /\ UNCHANGED checkFailed
         ELSE checkFailed' = "localErrorCode" /\ UNCHANGED thread
    /\ UNCHANGED <<parent, controller, sender>>

\* cv->acquire() of finishWithError (lines 794-795)
finishLock(w) ==
    /\ At(w, "finishAcquire")
    /\ cvFree
    /\ Set(w, [holdsCv |-> TRUE, pc |-> "finishHeld"])
    /\ UNCHANGED <<parent, controller, checkFailed, sender>>

\* the checkpoint is added and the thread marked FINISHED with the mutex
\* held; the return ends the guard (lines 796-799)
finishHeld(w) ==
    /\ At(w, "finishHeld")
    /\ SetParent([checkpoints |-> Append(parent.checkpoints, thread[w].checkpoint)])
    /\ SetController([threadState |-> markState(w, "FINISHED")])
    /\ Set(w, Ret("END"))
    /\ UNCHANGED <<checkFailed, sender>>

(****************************** the parent **********************************)
\* the receiver is asked to abort the transfer: getCurAbortCode is not OK from
\* now on
abort ==
    /\ checkFailed = "none"
    /\ parent.abortCode = "OK"
    /\ \E w \in Workers : thread[w].pc # "done"
    /\ SetParent([abortCode |-> "ABORT"])
    /\ UNCHANGED <<thread, controller, checkFailed, sender>>

(************************** the specification *******************************)
Init == InitSession(<<BusySender, PlainSender>>)

Next ==
    \/ abort
    \/ \E w \in ThreadIds :
         \/ start(w)
         \/ startAborted(w)
         \/ startReturn(w)
         \/ scopeExit(w)
         \/ listen(w)
         \/ acceptFirstConnection(w)
         \/ acceptFirstLoop(w)
         \/ executeAtStart(w)
         \/ acceptWithTimeout(w)
         \/ sendLocalCheckpoint(w)
         \/ readNextCmd(w)
         \/ processSettingsCmd(w)
         \/ processFileCmd(w)
         \/ processFileLoop(w)
         \/ processFileEnd(w)
         \/ processDoneCmd(w)
         \/ processSizeCmd(w)
         \/ sendFileChunks(w)
         \/ sendFileChunksWait(w)
         \/ sendFileChunksElected(w)
         \/ sendGlobalCheckpoint(w)
         \/ sendAbortCmd(w)
         \/ sendDoneCmd(w)
         \/ finishWithError(w)
         \/ waitForFinishOrNewCheckpoint(w)
         \/ waitFirstCheck(w)
         \/ waitSecondCheck(w)
         \/ waitKeepAlive(w)

Spec == Init /\ [][Next]_vars

\* a session of three threads, two of which end with an error and so add
\* their checkpoints to the list of the parent
InitCheckpoints == InitSession(<<QuietSender, GarbageSender, GarbageSender>>)

\* the steps of a session in which no sender transfers a block, a size or
\* file chunks, and which is never aborted
NextCheckpoints ==
    \E w \in ThreadIds :
      \/ start(w)
      \/ startReturn(w)
      \/ scopeExit(w)
      \/ listen(w)
      \/ acceptFirstConnection(w)
      \/ acceptFirstLoop(w)
      \/ executeAtStart(w)
      \/ acceptWithTimeout(w)
      \/ sendLocalCheckpoint(w)
      \/ readNextCmd(w)
      \/ processSettingsCmd(w)
      \/ processDoneCmd(w)
      \/ sendGlobalCheckpoint(w)
      \/ sendDoneCmd(w)
      \/ finishWithError(w)
      \/ waitForFinishOrNewCheckpoint(w)
      \/ waitFirstCheck(w)
      \/ waitSecondCheck(w)
      \/ waitKeepAlive(w)

SpecCheckpoints == InitCheckpoints /\ [][NextCheckpoints]_vars

(*************************** the buffer cursors *****************************)
(* The cursors off_, numRead_ and oldOffset_ of one worker over its buffer, *)
(* through the handlers that move them. The thread record of this           *)
(* specification holds the cursors and the frame of the last FILE_CMD;      *)
(* what the sender has put on the wire is an input of every read.           *)

\* the bytes a FILE_CMD takes before the encoded header: the magic byte, the
\* transfer status and the int16 length
FramePrefix == 1 + 1 + 2

\* Protocol::kMaxHeader: the longest FILE_CMD up to the end of its header
kMaxHeader == FramePrefix + MaxEncodedHeader

\* the two ways a sender may count headerLen: the bytes of the encoded header
\* that follow the length field, or the bytes from the magic byte to the end
\* of the encoded header
Framings == {"afterLength", "wholeFrame"}

NoFrame == [framing |-> "none", headerLen |-> 0, encodedLen |-> 0,
            frameAt |-> -1, payloadAt |-> -1]

\* the CHECKs at the entry of readAtLeast (lines 34-36)
readAtLeastChecks(max, atLeast, len) == len >= 0 /\ atLeast > 0 /\ atLeast <= max

\* readAtLeast (lines 30-61): the values the loop may return, each read
\* transferring 1..max - len bytes, 0 at the end of the stream or -1
readAtLeast(max, atLeast, len) ==
    IF len >= atLeast
      THEN {len}
      ELSE (len..max) \cup (IF len = 0 THEN {-1} ELSE {})

\* variant of afterMessage: numRead_ is left as it is
afterMessageKept(off, oldOffset, numRead) == numRead

\* numRead_ once the message between oldOffset_ and off_ is consumed
\* (lines 350-351, 555-556, 609-610)
afterMessage(off, oldOffset, numRead) == numRead - (off - oldOffset)

\* variant of headerBytes: the bytes decoded after the length field
headerBytesAfterLength(off, oldOffset) == off - oldOffset - FramePrefix

\* headerBytes of processFileCmd (line 403)
headerBytes(off, oldOffset) == off - oldOffset

InitCursors(w) ==
    [ state |-> "READ_NEXT_CMD",
      pc |-> "loop",
      localError |-> "OK",
      enableChecksum |-> FALSE,
      off |-> 0,
      numRead |-> 0,
      oldOffset |-> 0,
      frame |-> NoFrame ]

acceptWithTimeoutCursors(w) ==
    /\ Dispatch(w, "ACCEPT_WITH_TIMEOUT")
    /\ \E accepted \in BOOLEAN :
         IF accepted
           THEN Set(w, [numRead |-> 0, off |-> 0, localError |-> "OK"] @@
                       Ret(IF thread[w].localError # "OK"
                             THEN "SEND_LOCAL_CHECKPOINT" ELSE "READ_NEXT_CMD"))
           ELSE Set(w, [localError |-> "CONN_ERROR"] @@ Ret("FINISH_WITH_ERROR"))
    /\ UNCHANGED <<parent, controller, checkFailed, sender>>

sendLocalCheckpointCursors(w) ==
    /\ Dispatch(w, "SEND_LOCAL_CHECKPOINT")
    /\ \E written \in BOOLEAN :
         IF written
           THEN Set(w, Ret("READ_NEXT_CMD"))
           ELSE Set(w, [localError |-> "SOCKET_WRITE_ERROR"] @@
                       Ret("ACCEPT_WITH_TIMEOUT"))
    /\ UNCHANGED <<parent, controller, checkFailed, sender>>

readNextCmdCursors(w) ==
    /\ Dispatch(w, "READ_NEXT_CMD")
    /\ LET t == thread[w]
           max == BufferSize - t.off
       IN
       IF ~readAtLeastChecks(max, kMinBufLength, t.numRead)
         THEN /\ checkFailed' = "readAtLeast"
              /\ Set(w, [oldOffset |-> t.off])
         ELSE /\ UNCHANGED checkFailed
              /\ \E n \in readAtLeast(max, kMinBufLength, t.numRead),
                    cmd \in sender[w].cmds \ {"EOF"} :
                   LET read == [oldOffset |-> t.off, numRead |-> n, frame |-> NoFrame]
                       magic == [off |-> t.off + 1]
                   IN
                   IF n < kMinBufLength
                     THEN Set(w, read @@ [localError |-> "SOCKET_READ_ERROR"] @@
                                 Ret("ACCEPT_WITH_TIMEOUT"))
                   ELSE CASE cmd = "DONE_CMD" ->
                               Set(w, read @@ magic @@ Ret("PROCESS_DONE_CMD"))
                          [] cmd = "FILE_CMD" ->
                               Set(w, read @@ magic @@ Ret("PROCESS_FILE_CMD"))
                          [] cmd = "SETTINGS_CMD" ->
                               Set(w, read @@ magic @@ Ret("PROCESS_SETTINGS_CMD"))
                          [] cmd = "SIZE_CMD" ->
                               Set(w, read @@ magic @@ Ret("PROCESS_SIZE_CMD"))
                          [] OTHER ->
                               Set(w, read @@ magic @@
                                      [localError |-> "PROTOCOL_ERROR"] @@
                                      Ret("FINISH_WITH_ERROR"))
    /\ UNCHANGED <<parent, controller, sender>>

\* the lengths of a SETTINGS, SIZE, DONE or FOOTER message, magic byte
\* included: kMinBufLength is enough for any of them
MsgLens == 2..kMinBufLength

processSettingsCmdCursors(w) ==
    /\ Dispatch(w, "PROCESS_SETTINGS_CMD")
    /\ \E msgLen \in MsgLens, decoded, fileChunks, enableChecksum \in BOOLEAN :
         LET t == thread[w]
             off == t.oldOffset + msgLen
         IN
         IF ~decoded
           THEN Set(w, [off |-> off, localError |-> "PROTOCOL_ERROR"] @@
                       Ret("FINISH_WITH_ERROR"))
         ELSE IF fileChunks
           THEN Set(w, [enableChecksum |-> enableChecksum,
                        numRead |-> 0, off |-> 0] @@ Ret("SEND_FILE_CHUNKS"))
         ELSE Set(w, [enableChecksum |-> enableChecksum,
                      off |-> off,
                      numRead |-> afterMessage(off, t.oldOffset, t.numRead)] @@
                     Ret("READ_NEXT_CMD"))
    /\ UNCHANGED <<parent, controller, checkFailed, sender>>

\* sendFileChunks encodes with a cursor of its own
sendFileChunksCursors(w) ==
    /\ Dispatch(w, "SEND_FILE_CHUNKS")
    /\ \E sent \in BOOLEAN :
         IF sent
           THEN Set(w, Ret("READ_NEXT_CMD"))
           ELSE Set(w, [localError |-> "SOCKET_WRITE_ERROR"] @@
                       Ret("ACCEPT_WITH_TIMEOUT"))
    /\ UNCHANGED <<parent, controller, checkFailed, sender>>

processSizeCmdCursors(w) ==
    /\ Dispatch(w, "PROCESS_SIZE_CMD")
    /\ \E msgLen \in MsgLens, decoded \in BOOLEAN :
         LET t == thread[w]
             off == t.oldOffset + msgLen
         IN
         IF decoded
           THEN Set(w, [off |-> off,
                        numRead |-> afterMessage(off, t.oldOffset, t.numRead)] @@
                       Ret("READ_NEXT_CMD"))
           ELSE Set(w, [off |-> off, localError |-> "PROTOCOL_ERROR"] @@
                       Ret("FINISH_WITH_ERROR"))
    /\ UNCHANGED <<parent, controller, checkFailed, sender>>

processDoneCmdCursors(w) ==
    /\ Dispatch(w, "PROCESS_DONE_CMD")
    /\ \E msgLen \in MsgLens \ {2}, decoded \in BOOLEAN :
         LET t == thread[w] IN
         IF t.numRead # kMinBufLength
           THEN Set(w, [localError |-> "PROTOCOL_ERROR"] @@ Ret("FINISH_WITH_ERROR"))
         ELSE IF ~decoded
           THEN Set(w, [off |-> t.oldOffset + msgLen,
                        localError |-> "PROTOCOL_ERROR"] @@
                       Ret("FINISH_WITH_ERROR"))
         ELSE Set(w, [off |-> t.oldOffset + msgLen] @@
                     Ret("WAIT_FOR_FINISH_OR_NEW_CHECKPOINT"))
    /\ UNCHANGED <<parent, controller, checkFailed, sender>>

waitForFinishOrNewCheckpointCursors(w) ==
    /\ Dispatch(w, "WAIT_FOR_FINISH_OR_NEW_CHECKPOINT")
    /\ \E next \in {"SEND_GLOBAL_CHECKPOINTS", "SEND_DONE_CMD"} : Set(w, Ret(next))
    /\ UNCHANGED <<parent, controller, checkFailed, sender>>

\* sendGlobalCheckpoint encodes with off_: ERR_CMD, the int16 length, then
\* the checkpoints (lines 712-730)
sendGlobalCheckpointCursors(w) ==
    /\ Dispatch(w, "SEND_GLOBAL_CHECKPOINTS")
    /\ \E length \in 1..MaxEncodedHeader, written \in BOOLEAN :
         IF written
           THEN Set(w, [numRead |-> 0, off |-> 0] @@ Ret("READ_NEXT_CMD"))
           ELSE Set(w, [off |-> 1 + 2 + length,
                        localError |-> "SOCKET_WRITE_ERROR"] @@
                       Ret("ACCEPT_WITH_TIMEOUT"))
    /\ UNCHANGED <<parent, controller, checkFailed, sender>>

\* processFileCmd once the payload is written (lines 498-565): rem bytes of
\* the buffer follow the payload, which ends at off; taken holds the frame
fileCmdEnd(w, taken, off, rem) ==
    \E footerLen \in MsgLens,
       footer \in {"notFooter", "undecodable", "mismatch", "match"} :
      LET t == thread[w]
          moved == rem > 0 /\ rem < kMaxHeader /\ off > BufferSize \div 2
          leftAt == IF rem > 0 /\ ~moved THEN off ELSE 0
          max == BufferSize - leftAt
      IN
      IF ~t.enableChecksum
        THEN /\ Set(w, taken @@ [off |-> leftAt, numRead |-> rem] @@
                       Ret("READ_NEXT_CMD"))
             /\ UNCHANGED checkFailed
      ELSE IF ~readAtLeastChecks(max, kMinBufLength, rem)
        THEN /\ Set(w, taken @@ [off |-> leftAt, numRead |-> rem,
                                 oldOffset |-> leftAt])
             /\ checkFailed' = "readAtLeast"
      ELSE /\ UNCHANGED checkFailed
           /\ \E n \in readAtLeast(max, kMinBufLength, rem) :
                LET read == taken @@ [oldOffset |-> leftAt, numRead |-> n]
                    decoded == [off |-> leftAt + footerLen]
                IN
                IF n < kMinBufLength
                  THEN Set(w, read @@ [off |-> leftAt,
                                       localError |-> "SOCKET_READ_ERROR"] @@
                              Ret("ACCEPT_WITH_TIMEOUT"))
                ELSE CASE footer = "notFooter" ->
                            Set(w, read @@ [off |-> leftAt + 1,
                                            localError |-> "PROTOCOL_ERROR"] @@
                                   Ret("FINISH_WITH_ERROR"))
                       [] footer = "undecodable" ->
                            Set(w, read @@ decoded @@
                                   [localError |-> "PROTOCOL_ERROR"] @@
                                   Ret("FINISH_WITH_ERROR"))
                       [] footer = "mismatch" ->
                            Set(w, read @@ decoded @@
                                   [localError |-> "CHECKSUM_MISMATCH"] @@
                                   Ret("ACCEPT_WITH_TIMEOUT"))
                       [] footer = "match" ->
                            Set(w, [numRead |-> afterMessage(leftAt + footerLen,
                                                             leftAt, n)] @@
                                   read @@ decoded @@ Ret("READ_NEXT_CMD"))

\* processFileCmd from the decoding of the header to the payload (lines
\* 400-497), numRead bytes being in the buffer from oldOffset_ on
fileCmdHeader(w, framing, headerLen, encodedLen, numRead, writeOk, payloadRead) ==
    LET t == thread[w]
        lengthRead == t.off + 1 + 2
        limit == numRead + t.oldOffset
        success == lengthRead + encodedLen <= limit
    IN
    \E off \in IF success THEN {lengthRead + encodedLen} ELSE lengthRead..limit :
      LET frame == [framing |-> framing, headerLen |-> headerLen,
                    encodedLen |-> encodedLen, frameAt |-> t.oldOffset,
                    payloadAt |-> -1]
          sofar == [off |-> off, numRead |-> numRead, frame |-> frame]
          remainingData == numRead + t.oldOffset - off
          toWrite == IF remainingData >= DataSize THEN DataSize ELSE remainingData
          taken == [frame |-> [frame EXCEPT !.payloadAt = off]]
      IN
      IF headerLen # headerBytes(off, t.oldOffset)
        THEN Set(w, sofar) /\ checkFailed' = "headerLen"
      ELSE IF ~success
        THEN /\ Set(w, sofar @@ [localError |-> "PROTOCOL_ERROR"] @@
                       Ret("FINISH_WITH_ERROR"))
             /\ UNCHANGED checkFailed
      ELSE IF ~writeOk
        THEN /\ Set(w, sofar @@ [localError |-> "FILE_WRITE_ERROR"] @@
                       Ret("SEND_ABORT_CMD"))
             /\ UNCHANGED checkFailed
      ELSE IF toWrite < DataSize /\ ~payloadRead
        THEN /\ Set(w, taken @@ [off |-> off + toWrite, numRead |-> numRead,
                                 localError |-> "SOCKET_READ_ERROR"] @@
                       Ret("ACCEPT_WITH_TIMEOUT"))
             /\ UNCHANGED checkFailed
      ELSE fileCmdEnd(w, taken, off + toWrite, remainingData - toWrite)

\* processFileCmd: the transfer status, headerLen and the read that completes
\* the header (lines 380-399), then the rest of the handler
processFileCmdCursors(w) ==
    /\ Dispatch(w, "PROCESS_FILE_CMD")
    /\ \E encodedLen \in 1..MaxEncodedHeader, framing \in Framings,
          writeOk, payloadRead \in BOOLEAN :
         LET t == thread[w]
             headerLen == IF framing = "wholeFrame"
                            THEN FramePrefix + encodedLen ELSE encodedLen
             end == t.oldOffset + t.numRead
             max == BufferSize - end
             topUp == headerLen > t.numRead
         IN
         IF topUp /\ ~readAtLeastChecks(max, headerLen, t.numRead)
           THEN Set(w, [off |-> t.off + 1]) /\ checkFailed' = "readAtLeast"
           ELSE \E numRead \in IF topUp
                                 THEN readAtLeast(max, headerLen, t.numRead)
                                 ELSE {t.numRead} :
                  IF numRead < headerLen
                    THEN /\ Set(w, [off |-> t.off + 1, numRead |-> numRead,
                                    localError |-> "SOCKET_READ_ERROR"] @@
                                   Ret("ACCEPT_WITH_TIMEOUT"))
                         /\ UNCHANGED checkFailed
                    ELSE fileCmdHeader(w, framing, headerLen, encodedLen,
                                       numRead, writeOk, payloadRead)
    /\ UNCHANGED <<parent, controller, sender>>

\* one worker that has accepted its first connection, its buffer empty
InitBuffer ==
    /\ thread = [w \in {1} |-> InitCursors(w)]
    /\ parent = [abortCode |-> "OK"]
    /\ controller = [registered |-> {1}]
    /\ checkFailed = "none"
    /\ sender = <<AnySender>>

NextBuffer ==
    \E w \in ThreadIds :
      \/ acceptWithTimeoutCursors(w)
      \/ sendLocalCheckpointCursors(w)
      \/ readNextCmdCursors(w)
      \/ processSettingsCmdCursors(w)
      \/ sendFileChunksCursors(w)
      \/ processFileCmdCursors(w)
      \/ processSizeCmdCursors(w)
      \/ processDoneCmdCursors(w)
      \/ waitForFinishOrNewCheckpointCursors(w)
      \/ sendGlobalCheckpointCursors(w)

SpecBuffer == InitBuffer /\ [][NextBuffer]_vars

\* a sender that may send a block besides settings and DONE
BlockSender == [PlainSender EXCEPT !.cmds = @ \cup {"FILE_CMD"}]

\* a session of two threads whose senders may ask for the file chunks; the
\* elections of the funnel are counted
InitFunnel == InitCounting(<<BlockSender, PlainSender>>, TRUE)

\* the steps of that session
NextFunnel ==
    \E w \in ThreadIds :
      \/ start(w)
      \/ startReturn(w)
      \/ scopeExit(w)
      \/ listen(w)
      \/ acceptFirstConnection(w)
      \/ acceptFirstLoop(w)
      \/ executeAtStart(w)
      \/ acceptWithTimeout(w)
      \/ sendLocalCheckpoint(w)
      \/ readNextCmd(w)
      \/ processSettingsCmd(w)
      \/ processFileCmd(w)
      \/ processFileLoop(w)
      \/ processFileEnd(w)
      \/ processDoneCmd(w)
      \/ sendFileChunks(w)
      \/ sendFileChunksWait(w)
      \/ sendFileChunksElected(w)
      \/ sendGlobalCheckpoint(w)
      \/ sendDoneCmd(w)
      \/ finishWithError(w)
      \/ waitForFinishOrNewCheckpoint(w)
      \/ waitFirstCheck(w)
      \/ waitSecondCheck(w)
      \/ waitKeepAlive(w)

SpecFunnel == InitFunnel /\ [][NextFunnel]_vars

\* a session of two threads, one of which ends with an error while the
\* other waits for it
InitMutex == InitSession(<<QuietSender, GarbageSender>>)

\* the steps of that session, those around the mutex one by one
NextMutex ==
    \E w \in ThreadIds :
      \/ start(w)
      \/ startReturn(w)
      \/ scopeExit(w)
      \/ listen(w)
      \/ acceptFirstConnection(w)
      \/ acceptFirstLoop(w)
      \/ executeAtStart(w)
      \/ acceptWithTimeout(w)
      \/ sendLocalCheckpoint(w)
      \/ readNextCmd(w)
      \/ processSettingsCmd(w)
      \/ processDoneCmd(w)
      \/ sendGlobalCheckpoint(w)
      \/ sendDoneCmd(w)
      \/ waitForFinishOrNewCheckpoint(w)
      \/ waitLock(w)
      \/ waitCheckHeld(w)
      \/ waitWake(w)
      \/ waitCheckWoken(w)
      \/ waitKeepAlive(w)
      \/ finishCloseAll(w)
      \/ finishLock(w)
      \/ finishHeld(w)

SpecMutex == InitMutex /\ [][NextMutex]_vars

(************************ the bytes in the buffer ***************************)
(* readNextCmd, processSettingsCmd and the first part of processFileCmd     *)
(* once more, with the contents of the buffer: the bytes of the stream of   *)
(* the connection are numbered from 0, buf gives for every position of the  *)
(* buffer the number of the byte stored there (-1: none), and next is the   *)
(* number of the byte the socket delivers next.                             *)

\* the buffer buf after s.read has stored count bytes of the stream, from
\* byte number next on, at position at
stored(buf, at, count, next) ==
    [p \in DOMAIN buf |->
       IF p >= at /\ p < at + count THEN next + (p - at) ELSE buf[p]]

\* readAtLeast(s, buf + base, max, atLeast, len) has returned n: the reads of
\* its loop have stored n - len bytes at buf + base + len (line 41)
readAtLeastStored(t, base, len, n) ==
    IF n > len
      THEN [buf |-> stored(t.buf, base + len, n - len, t.next),
            next |-> t.next + (n - len)]
      ELSE [buf |-> t.buf, next |-> t.next]

\* a worker that has accepted a connection, nothing read yet
InitBytes(w) ==
    [ state |-> "READ_NEXT_CMD",
      pc |-> "loop",
      localError |-> "OK",
      off |-> 0,
      numRead |-> 0,
      oldOffset |-> 0,
      headerLen |-> 0,
      toppedUp |-> FALSE,
      buf |-> [p \in 0..(BufferSize - 1) |-> -1],
      next |-> 0 ]

\* readNextCmd (lines 260-287) for a sender that sends SETTINGS and FILE_CMD
readNextCmdBytes(w) ==
    /\ Dispatch(w, "READ_NEXT_CMD")
    /\ LET t == thread[w]
           max == BufferSize - t.off
       IN
       IF ~readAtLeastChecks(max, kMinBufLength, t.numRead)
         THEN /\ checkFailed' = "readAtLeast"
              /\ Set(w, [oldOffset |-> t.off])
         ELSE /\ UNCHANGED checkFailed
              /\ \E n \in readAtLeast(max, kMinBufLength, t.numRead),
                    cmd \in {"SETTINGS_CMD", "FILE_CMD"} :
                   LET read == [oldOffset |-> t.off, numRead |-> n] @@
                               readAtLeastStored(t, t.off, t.numRead, n)
                   IN
                   IF n < kMinBufLength
                     THEN Set(w, read @@ [localError |-> "SOCKET_READ_ERROR"] @@
                                 Ret("ACCEPT_WITH_TIMEOUT"))
                     ELSE Set(w, read @@ [off |-> t.off + 1] @@
                                 Ret(IF cmd = "FILE_CMD"
                                       THEN "PROCESS_FILE_CMD"
                                       ELSE "PROCESS_SETTINGS_CMD"))
    /\ UNCHANGED <<parent, controller, sender>>

\* processSettingsCmd (lines 290-353) for well-formed settings that do not
\* ask for the file chunks
processSettingsCmdBytes(w) ==
    /\ Dispatch(w, "PROCESS_SETTINGS_CMD")
    /\ \E msgLen \in MsgLens :
         LET t == thread[w]
             off == t.oldOffset + msgLen
         IN  Set(w, [off |-> off,
                     numRead |-> afterMessage(off, t.oldOffset, t.numRead)] @@
                    Ret("READ_NEXT_CMD"))
    /\ UNCHANGED <<parent, controller, checkFailed, sender>>

\* the buf argument of the readAtLeast call that completes the header:
\* buf_ + end with end = oldOffset_ + numRead_ (lines 391-392)
topUpBase(t) == t.oldOffset + t.numRead

\* processFileCmd up to the read that completes the header (lines 380-399)
processFileCmdBytes(w) ==
    /\ Dispatch(w, "PROCESS_FILE_CMD")
    /\ \E encodedLen \in 1..MaxEncodedHeader :
         LET t == thread[w]
             headerLen == FramePrefix + encodedLen
             end == t.oldOffset + t.numRead
             max == BufferSize - end
             topUp == headerLen > t.numRead
             sofar == [off |-> t.off + 1, headerLen |-> headerLen,
                       toppedUp |-> topUp]
         IN
         IF topUp /\ ~readAtLeastChecks(max, headerLen, t.numRead)
           THEN Set(w, sofar) /\ checkFailed' = "readAtLeast"
           ELSE /\ UNCHANGED checkFailed
                /\ \E n \in IF topUp
                               THEN readAtLeast(max, headerLen, t.numRead)
                               ELSE {t.numRead} :
                     LET read == [numRead |-> n] @@
                                 readAtLeastStored(t, topUpBase(t), t.numRead, n)
                     IN
                     IF n < headerLen
                       THEN Set(w, sofar @@ read @@
                                   [localError |-> "SOCKET_READ_ERROR"] @@
                                   Ret("ACCEPT_WITH_TIMEOUT"))
                       ELSE Set(w, sofar @@ read @@ [pc |-> "header"])
    /\ UNCHANGED <<parent, controller, sender>>

\* one worker on a new connection, its buffer empty
InitStored ==
    /\ thread = [w \in {1} |-> InitBytes(w)]
    /\ parent = [abortCode |-> "OK"]
    /\ controller = [registered |-> {1}]
    /\ checkFailed = "none"
    /\ sender = <<AnySender>>

NextStored ==
    \E w \in ThreadIds :
      \/ readNextCmdBytes(w)
      \/ processSettingsCmdBytes(w)
      \/ processFileCmdBytes(w)

SpecStored == InitStored /\ [][NextStored]_vars

(*********************** a session without faults **************************)
\* a sender that sends settings, blocks and DONE, all well formed, and may
\* ask for the file chunks
GoodSender ==
    [ cmds |-> {"SETTINGS_CMD", "FILE_CMD", "DONE_CMD"},
      versions |-> {ReceiverVersion},
      checksums |-> BOOLEAN,
      fileChunks |-> BOOLEAN,
      malformed |-> FALSE,
      fileFaults |-> FALSE ]

\* the step of thread w records no error: no socket call, file operation or
\* decoding fails and no connection is refused
Unfailing(w) ==
    /\ thread'[w].localError = "OK"
    /\ thread'[w].acceptAttempts = 0
    /\ checkFailed' = "none"

\* the command thread w reads, if the step reads one, is the next of the
\* sender's sequence: SETTINGS first, then blocks, then DONE
InOrder(w) ==
    (thread[w].state = "READ_NEXT_CMD" /\ thread[w].pc = "loop") =>
      IF thread[w].senderReadTimeout > 0
        THEN thread'[w].state \in {"PROCESS_FILE_CMD", "PROCESS_DONE_CMD"}
        ELSE thread'[w].state = "PROCESS_SETTINGS_CMD"

\* the step of thread w is one of the session without faults
Good(w) == Unfailing(w) /\ InOrder(w)

\* a step of thread w in the session without faults and without abort
unfailingStep(w) ==
    \/ start(w) /\ Good(w)
    \/ startReturn(w) /\ Good(w)
    \/ scopeExit(w) /\ Good(w)
    \/ listen(w) /\ Good(w)
    \/ acceptFirstConnection(w) /\ Good(w)
    \/ acceptFirstLoop(w) /\ Good(w)
    \/ executeAtStart(w) /\ Good(w)
    \/ acceptWithTimeout(w) /\ Good(w)
    \/ readNextCmd(w) /\ Good(w)
    \/ processSettingsCmd(w) /\ Good(w)
    \/ processFileCmd(w) /\ Good(w)
    \/ processFileLoop(w) /\ Good(w)
    \/ processFileEnd(w) /\ Good(w)
    \/ processDoneCmd(w) /\ Good(w)
    \/ sendFileChunks(w) /\ Good(w)
    \/ sendFileChunksWait(w) /\ Good(w)
    \/ sendFileChunksElected(w) /\ Good(w)
    \/ sendDoneCmd(w) /\ Good(w)
    \/ waitForFinishOrNewCheckpoint(w) /\ Good(w)
    \/ waitFirstCheck(w) /\ Good(w)
    \/ waitSecondCheck(w) /\ Good(w)
    \/ waitKeepAlive(w) /\ Good(w)

InitFinish == InitSession(<<GoodSender, GoodSender>>)

NextFinish == \E w \in ThreadIds : unfailingStep(w)

\* every thread is scheduled again and again, and a wait on the condition
\* variable or on the funnel times out
SpecFinish ==
    /\ InitFinish
    /\ [][NextFinish]_vars
    /\ \A w \in ThreadIds : WF_vars(unfailingStep(w))

(******************** the packets of SEND_FILE_CHUNKS ***********************)
(* The FUNNEL_START case of sendFileChunks once more, packet by packet: the *)
(* parent publishes a list of FileChunksInfo entries, each given by the     *)
(* bytes its encoding takes, and the worker has a buffer of bufferSize      *)
(* bytes.                                                                   *)

\* sizeof(int32_t), the size field in front of the entries of a packet
PacketPrefix == 4

\* the lists of entries the parent may publish
EntryLists ==
    UNION {[1..n -> 1..MaxEntryLen] : n \in 0..MaxEntries}

\* the buffers: the smallest holds the size field and one byte, the largest
\* has room for more than one entry of any length
ChunkBufferSizes == (PacketPrefix + 1)..(PacketPrefix + MaxEntryLen + 1)

\* Protocol::encodeFileChunksInfoList: the entries of list from index startIndex
\* (counted from 0) on are encoded at off as long as the next one fits into
\* the buffer; n is the number of entries encoded, off the offset after them
RECURSIVE encodeFileChunksInfoList(_, _, _, _)
encodeFileChunksInfoList(off, bufSize, startIndex, list) ==
    IF startIndex >= Len(list) \/ off + list[startIndex + 1] > bufSize
      THEN [n |-> 0, off |-> off]
      ELSE LET rest == encodeFileChunksInfoList(off + list[startIndex + 1], bufSize,
                                                startIndex + 1, list)
           IN  [n |-> rest.n + 1, off |-> rest.off]

\* a worker in SEND_FILE_CHUNKS whose funnel is in FUNNEL_START
InitPackets(bufSize) ==
    [ state |-> "SEND_FILE_CHUNKS",
      pc |-> "loop",
      localError |-> "OK",
      bufferSize |-> bufSize,
      numEntriesWritten |-> 0,
      numEntriesEncoded |-> 0,
      packets |-> 0 ]

\* the worker leaves sendFileChunks
packetsReturn(next) ==
    [state |-> next, pc |-> "loop", numEntriesWritten |-> 0,
     numEntriesEncoded |-> 0]

\* getStatus returns FUNNEL_START: the CHUNKS_CMD envelope is written
\* (lines 620, 649-664)
sendFileChunksEnvelope(w) ==
    /\ At(w, "loop")
    /\ thread[w].state = "SEND_FILE_CHUNKS"
    /\ controller.funnel = "FUNNEL_START"
    /\ \E written \in BOOLEAN :
         IF written
           THEN /\ Set(w, [pc |-> "packets"])
                /\ SetController([funnel |-> "FUNNEL_PROGRESS"])
           ELSE /\ Set(w, [localError |-> "SOCKET_READ_ERROR"] @@
                          packetsReturn("ACCEPT_WITH_TIMEOUT"))
                /\ UNCHANGED controller
    /\ UNCHANGED <<parent, checkFailed, sender>>

\* one iteration of the packet loop: as many entries as fit are encoded
\* after the size field and the packet is written (lines 671-685)
sendFileChunksPacket(w) ==
    /\ At(w, "packets")
    /\ thread[w].numEntriesWritten < Len(parent.fileChunksInfo)
    /\ LET encoded == encodeFileChunksInfoList(PacketPrefix, thread[w].bufferSize,
                                               thread[w].numEntriesWritten,
                                               parent.fileChunksInfo)
       IN  \E written \in BOOLEAN :
             IF written
               THEN Set(w, [numEntriesWritten |->
                              thread[w].numEntriesWritten + encoded.n,
                            numEntriesEncoded |-> encoded.n,
                            packets |-> IF thread[w].packets < MaxPackets
                                          THEN thread[w].packets + 1
                                          ELSE MaxPackets])
               ELSE Set(w, [pc |-> "packetsOver",
                            numEntriesEncoded |-> encoded.n])
    /\ UNCHANGED <<parent, controller, checkFailed, sender>>

\* the packet loop is over: not all entries written, or the ack is read
\* (lines 671, 686-704)
sendFileChunksAck(w) ==
    /\ \/ At(w, "packetsOver")
       \/ /\ At(w, "packets")
          /\ thread[w].numEntriesWritten >= Len(parent.fileChunksInfo)
    /\ IF thread[w].numEntriesWritten # Len(parent.fileChunksInfo)
         THEN /\ Set(w, [localError |-> "SOCKET_WRITE_ERROR"] @@
                        packetsReturn("ACCEPT_WITH_TIMEOUT"))
              /\ SetController([funnel |-> "FUNNEL_START"])
         ELSE \E acked \in BOOLEAN :
                IF acked
                  THEN /\ Set(w, packetsReturn("READ_NEXT_CMD"))
                       /\ SetController([funnel |-> "FUNNEL_END"])
                  ELSE /\ Set(w, [localError |-> "SOCKET_READ_ERROR"] @@
                                 packetsReturn("ACCEPT_WITH_TIMEOUT"))
                       /\ SetController([funnel |-> "FUNNEL_START"])
    /\ UNCHANGED <<parent, checkFailed, sender>>

\* one worker elected by the funnel, for every published list and buffer
InitChunks ==
    /\ \E bufSize \in ChunkBufferSizes :
         thread = [w \in {1} |-> InitPackets(bufSize)]
    /\ \E list \in EntryLists : parent = [fileChunksInfo |-> list]
    /\ controller = [funnel |-> "FUNNEL_START"]
    /\ checkFailed = "none"
    /\ sender = <<AnySender>>

NextChunks ==
    \E w \in ThreadIds :
      \/ sendFileChunksEnvelope(w)
      \/ sendFileChunksPacket(w)
      \/ sendFileChunksAck(w)

SpecChunks == InitChunks /\ [][NextChunks]_vars

(***************************** properties ***********************************)
\* thread w takes the step
Stepped(w) == thread'[w] # thread[w]

\* the step is the return of a state handler of thread w to the loop (a
\* failed WDT_CHECK ends the process inside the handler)
HandlerReturned(w) ==
    /\ checkFailed' = "none"
    /\ thread[w].pc \notin {"start", "guard", "done"}
    /\ thread'[w].pc = "loop"
    /\ Stepped(w)

\* the step takes thread w out of the loop of start()
LoopStopped(w) == thread[w].pc = "loop" /\ thread'[w].pc = "guard"

\* the transition table of the state machine, with the short read of
\* READ_NEXT_CMD
Successors(st) ==
    CASE st = "LISTEN" -> {"ACCEPT_FIRST_CONNECTION", "FAILED"}
      [] st = "ACCEPT_FIRST_CONNECTION" ->
           {"READ_NEXT_CMD", "ACCEPT_WITH_TIMEOUT", "FAILED"}
      [] st = "ACCEPT_WITH_TIMEOUT" ->
           {"READ_NEXT_CMD", "SEND_LOCAL_CHECKPOINT", "END", "FINISH_WITH_ERROR"}
      [] st = "SEND_LOCAL_CHECKPOINT" ->
           {"READ_NEXT_CMD", "SEND_DONE_CMD", "ACCEPT_WITH_TIMEOUT"}
      [] st = "READ_NEXT_CMD" ->
           {"PROCESS_DONE_CMD", "PROCESS_FILE_CMD", "PROCESS_SETTINGS_CMD",
            "PROCESS_SIZE_CMD", "FINISH_WITH_ERROR", "ACCEPT_WITH_TIMEOUT"}
      [] st = "PROCESS_SETTINGS_CMD" ->
           {"READ_NEXT_CMD", "SEND_FILE_CHUNKS", "SEND_ABORT_CMD",
            "FINISH_WITH_ERROR"}
      [] st = "PROCESS_FILE_CMD" ->
           {"READ_NEXT_CMD", "ACCEPT_WITH_TIMEOUT", "SEND_ABORT_CMD", "FAILED",
            "FINISH_WITH_ERROR"}
      [] st = "PROCESS_DONE_CMD" ->
           {"WAIT_FOR_FINISH_OR_NEW_CHECKPOINT", "FINISH_WITH_ERROR"}
      [] st = "PROCESS_SIZE_CMD" -> {"READ_NEXT_CMD", "FINISH_WITH_ERROR"}
      [] st = "SEND_FILE_CHUNKS" -> {"READ_NEXT_CMD", "ACCEPT_WITH_TIMEOUT"}
      [] st = "WAIT_FOR_FINISH_OR_NEW_CHECKPOINT" ->
           {"SEND_GLOBAL_CHECKPOINTS", "SEND_DONE_CMD", "ACCEPT_WITH_TIMEOUT"}
      [] st = "SEND_GLOBAL_CHECKPOINTS" -> {"READ_NEXT_CMD", "ACCEPT_WITH_TIMEOUT"}
      [] st = "SEND_DONE_CMD" -> {"END", "ACCEPT_WITH_TIMEOUT"}
      [] st = "SEND_ABORT_CMD" -> {"FINISH_WITH_ERROR", "ACCEPT_WITH_TIMEOUT"}
      [] st = "FINISH_WITH_ERROR" -> {"END"}
      [] OTHER -> {}

\* every handler returns a successor of its state, starting from LISTEN
FollowsTable(w) ==
    /\ (thread[w].pc = "start" /\ thread'[w].pc = "loop")
         => thread'[w].state = "LISTEN"
    /\ HandlerReturned(w) => thread'[w].state \in Successors(thread[w].state)

\* C1 as stated: every transition of a worker is one the transition table
\* lists for the state, and the loop of start() stops only in END and FAILED.
C1_TableAndTerminalStates ==
    [][\A w \in DOMAIN thread :
         /\ FollowsTable(w)
         /\ LoopStopped(w) => thread[w].state \in {"END", "FAILED"}]_vars

\* C1 amended: every transition of a worker is one the transition table lists
\* for the state, and the loop of start() stops in END or FAILED, or, in any
\* state, at the top of an iteration once the abort code of the parent is not
\* OK.
C1_TableAndLoopExits ==
    [][\A w \in DOMAIN thread :
         /\ FollowsTable(w)
         /\ LoopStopped(w) =>
              \/ thread[w].state \in {"END", "FAILED"}
              \/ parent.abortCode # "OK"]_vars

\* the loop of a worker was stopped by an abort while it was to read a command
C1_StoppedInReadNextCmd ==
    \E w \in DOMAIN thread :
      /\ thread[w].pc \in {"guard", "done"}
      /\ thread[w].state = "READ_NEXT_CMD"
      /\ parent.abortCode # "OK"

\* C2: a worker that is at the top of the loop when the abort code of the
\* parent is not OK runs no handler: its only step sets the local error to
\* ABORT and leaves the loop, and the only step after that is the scope exit,
\* which deregisters it and ends it.
C2_AbortStopsWorker ==
    [][\A w \in DOMAIN thread :
         /\ (thread[w].pc = "loop" /\ parent.abortCode # "OK" /\ Stepped(w))
              => thread'[w] = [thread[w] EXCEPT !.localError = "ABORT",
                                                !.pc = "guard"]
         /\ (thread[w].pc = "guard" /\ Stepped(w))
              => /\ thread'[w] = [thread[w] EXCEPT
                                    !.pc = "done",
                                    !.deRegisterCalls = @ + 1,
                                    !.executeAtEndCalls = @ + 1]
                 /\ w \notin controller'.registered]_vars

\* a worker ended with the error ABORT and is deregistered
C2_AbortedAndDone ==
    \E w \in DOMAIN thread :
      /\ thread[w].pc = "done"
      /\ thread[w].localError = "ABORT"
      /\ w \notin controller.registered

\* C3: a worker has deregistered once and called executeAtEnd once when
\* start() is over, however it ended, and not at all before; the executeAtEnd
\* count is the number of workers that are over.
C3_ScopeExitOnce ==
    /\ \A w \in DOMAIN thread :
         LET over == IF thread[w].pc = "done" THEN 1 ELSE 0 IN
         /\ thread[w].deRegisterCalls = over
         /\ thread[w].executeAtEndCalls = over
         /\ (w \in controller.registered) <=> (over = 0)
    /\ controller.atEndHits =
         Cardinality({w \in DOMAIN thread : thread[w].pc = "done"})

\* all workers are over, one without a buffer and one in END
C3_AllOver ==
    /\ \A w \in DOMAIN thread : thread[w].pc = "done"
    /\ \E w \in DOMAIN thread : thread[w].localError = "MEMORY_ALLOCATION_ERROR"
    /\ \E w \in DOMAIN thread : thread[w].state = "END"

\* thread w is processing a FILE command or has processed one
FileSeen(w) ==
    \/ thread[w].state = "PROCESS_FILE_CMD"
    \/ thread[w].pc = "processFileLoop"
    \/ thread[w].numBlocks > 0

C5_PendingNotBehind ==
    \A w \in DOMAIN thread :
      thread[w].pendingCheckpointIndex >= thread[w].checkpointIndex

\* a batch of checkpoints is pending
C5_BatchPending ==
    \E w \in DOMAIN thread :
      thread[w].pendingCheckpointIndex > thread[w].checkpointIndex

\* the step changes checkpointIndex of thread w
IndexChanged(w) == thread'[w].checkpointIndex # thread[w].checkpointIndex

\* C6 as stated: checkpointIndex changes only in a PROCESS_FILE_CMD that
\* returns READ_NEXT_CMD (or is still reading the payload) or in a
\* PROCESS_DONE_CMD that returns WAIT_FOR_FINISH_OR_NEW_CHECKPOINT; a
\* PROCESS_FILE_CMD that returns an error state leaves it unchanged.
C6_ChangedOnlyOnSuccess ==
    [][\A w \in DOMAIN thread :
         IndexChanged(w) =>
           \/ /\ thread[w].state = "PROCESS_FILE_CMD"
              /\ \/ thread'[w].state = "READ_NEXT_CMD"
                 \/ thread'[w].pc = "processFileLoop"
           \/ /\ thread[w].state = "PROCESS_DONE_CMD"
              /\ thread'[w].state = "WAIT_FOR_FINISH_OR_NEW_CHECKPOINT"]_vars

\* C6 amended: checkpointIndex changes only to pendingCheckpointIndex, either
\* in PROCESS_FILE_CMD at the point where the header is decoded, whatever
\* becomes of the block afterwards, or in a PROCESS_DONE_CMD that returns
\* WAIT_FOR_FINISH_OR_NEW_CHECKPOINT; a PROCESS_FILE_CMD that fails before
\* the header is decoded leaves it unchanged.
C6_ChangedAtHeaderOrDone ==
    [][\A w \in DOMAIN thread :
         /\ IndexChanged(w) =>
              /\ thread'[w].checkpointIndex = thread[w].pendingCheckpointIndex
              /\ \/ /\ thread[w].state = "PROCESS_FILE_CMD"
                    /\ thread[w].pc = "loop"
                    /\ \/ thread'[w].pc = "processFileLoop"
                       \/ thread'[w].state = "SEND_ABORT_CMD"
                 \/ /\ thread[w].state = "PROCESS_DONE_CMD"
                    /\ thread'[w].state = "WAIT_FOR_FINISH_OR_NEW_CHECKPOINT"
         /\ ( /\ thread[w].state = "PROCESS_FILE_CMD"
              /\ thread[w].pc = "loop"
              /\ thread'[w].state \in {"ACCEPT_WITH_TIMEOUT", "FINISH_WITH_ERROR"} )
              => ~IndexChanged(w)]_vars

\* the index of checkpoint c in the list of the parent
PosOf(c) ==
    CHOOSE i \in 1..Len(parent.checkpoints) : parent.checkpoints[i] = c

\* the last batch of global checkpoints thread w wrote is not committed
Uncommitted(w) ==
    /\ thread[w].sentGlobal # <<>>
    /\ thread[w].checkpointIndex <
         PosOf(thread[w].sentGlobal[Len(thread[w].sentGlobal)])

\* a PROCESS_FILE_CMD that committed the batch sent before it has ended with
\* a write error
C6_CommittedThenFailed ==
    \E w \in DOMAIN thread :
      /\ thread[w].state = "SEND_ABORT_CMD"
      /\ thread[w].localError = "FILE_WRITE_ERROR"
      /\ thread[w].sentGlobal # <<>>
      /\ ~Uncommitted(w)
      /\ thread[w].checkpointIndex = thread[w].pendingCheckpointIndex

\* C7: a SEND_GLOBAL_CHECKPOINTS that writes its batch of k >= 1 checkpoints
\* returns READ_NEXT_CMD with pendingCheckpointIndex larger by k; one that
\* does not leaves pendingCheckpointIndex unchanged.
C7_PendingAdvancesByBatch ==
    [][\A w \in DOMAIN thread :
         ( /\ thread[w].state = "SEND_GLOBAL_CHECKPOINTS"
           /\ thread[w].pc = "loop"
           /\ Stepped(w) )
         => LET k == Len(thread[w].newCheckpoints) IN
            /\ k >= 1
            /\ IF thread'[w].state = "READ_NEXT_CMD"
                 THEN /\ thread'[w].pendingCheckpointIndex =
                           thread[w].pendingCheckpointIndex + k
                      /\ thread'[w].sentGlobal = thread[w].newCheckpoints
                 ELSE thread'[w].pendingCheckpointIndex =
                        thread[w].pendingCheckpointIndex]_vars

\* a batch was written after an earlier batch had been committed
C7_SecondBatchPending ==
    \E w \in DOMAIN thread :
      /\ thread[w].state = "READ_NEXT_CMD"
      /\ thread[w].checkpointIndex >= 1
      /\ thread[w].pendingCheckpointIndex > thread[w].checkpointIndex

TransportErrors == {"SOCKET_READ_ERROR", "SOCKET_WRITE_ERROR", "CHECKSUM_MISMATCH"}

\* the step is an ACCEPT_WITH_TIMEOUT of thread w that accepts a connection
\* after a transport error
AcceptedAfterError(w) ==
    /\ thread[w].state = "ACCEPT_WITH_TIMEOUT"
    /\ thread[w].pc = "loop"
    /\ thread[w].localError \in TransportErrors
    /\ thread'[w].pc = "loop"
    /\ thread'[w].state \in {"READ_NEXT_CMD", "SEND_LOCAL_CHECKPOINT"}

\* C8 as stated: an accept after a transport error leaves
\* pendingCheckpointIndex, checkpointIndex and the checkpoint's lastBlock as
\* they were when the error occurred.
C8_AcceptPreservesAll ==
    [][\A w \in DOMAIN thread :
         AcceptedAfterError(w) =>
           /\ thread'[w].pendingCheckpointIndex = thread[w].pendingCheckpointIndex
           /\ thread'[w].checkpointIndex = thread[w].checkpointIndex
           /\ thread'[w].checkpoint.lastBlock = thread[w].checkpoint.lastBlock]_vars

\* C8 amended: an accept after a transport error leaves checkpointIndex and
\* the checkpoint's lastBlock as they were when the error occurred, and
\* pendingCheckpointIndex equals checkpointIndex after it: a batch that was
\* pending is pending no more.
C8_AcceptRollsBackPending ==
    [][\A w \in DOMAIN thread :
         AcceptedAfterError(w) =>
           /\ thread'[w].pendingCheckpointIndex = thread[w].checkpointIndex
           /\ thread'[w].checkpointIndex = thread[w].checkpointIndex
           /\ thread'[w].checkpoint.lastBlock = thread[w].checkpoint.lastBlock]_vars

\* a worker has accepted a connection after the loss of the one it wrote a
\* batch to: the batch is not committed and not pending
C8_PendingRolledBack ==
    \E w \in DOMAIN thread :
      /\ thread[w].state = "SEND_LOCAL_CHECKPOINT"
      /\ thread[w].pc = "loop"
      /\ ~thread[w].doneSendFailure
      /\ Uncommitted(w)
      /\ thread[w].pendingCheckpointIndex = thread[w].checkpointIndex

IsPrefix(s, t) == Len(s) <= Len(t) /\ SubSeq(t, 1, Len(s)) = s

\* C9: checkpointIndex changes in no state but PROCESS_FILE_CMD and
\* PROCESS_DONE_CMD, so a batch whose connection is lost before one of them
\* stays uncommitted; a worker with an uncommitted batch leaves
\* WAIT_FOR_FINISH_OR_NEW_CHECKPOINT for SEND_GLOBAL_CHECKPOINTS only, with a
\* batch that begins with the checkpoints of the uncommitted one.
C9_UncommittedBatchResent ==
    [][\A w \in DOMAIN thread :
         /\ thread[w].state \notin {"PROCESS_FILE_CMD", "PROCESS_DONE_CMD"}
              => ~IndexChanged(w)
         /\ ( /\ Uncommitted(w)
              /\ thread[w].state = "WAIT_FOR_FINISH_OR_NEW_CHECKPOINT"
              /\ HandlerReturned(w) )
              => /\ thread'[w].state = "SEND_GLOBAL_CHECKPOINTS"
                 /\ IsPrefix(thread[w].sentGlobal, thread'[w].newCheckpoints)]_vars

\* a worker that lost the connection after writing a batch is about to write
\* the checkpoints of the batch again
C9_AboutToResend ==
    \E w \in DOMAIN thread :
      /\ thread[w].state = "SEND_GLOBAL_CHECKPOINTS"
      /\ thread[w].pc = "loop"
      /\ Uncommitted(w)
      /\ thread[w].pendingCheckpointIndex = thread[w].checkpointIndex
      /\ IsPrefix(thread[w].sentGlobal, thread[w].newCheckpoints)

\* C10: a failed SEND_DONE_CMD sets doneSendFailure, which then stays true;
\* with it set, ACCEPT_WITH_TIMEOUT returns SEND_LOCAL_CHECKPOINT or END and
\* never FINISH_WITH_ERROR or READ_NEXT_CMD, and SEND_LOCAL_CHECKPOINT sends
\* a checkpoint with numBlocks = -1, not the one of the thread, and returns
\* SEND_DONE_CMD, or ACCEPT_WITH_TIMEOUT after a short write, never
\* READ_NEXT_CMD.
C10_DoneSendFailure ==
    [][\A w \in DOMAIN thread :
         /\ ( /\ thread[w].state = "SEND_DONE_CMD"
              /\ HandlerReturned(w)
              /\ thread'[w].state # "END" )
              => thread'[w].doneSendFailure
         /\ thread[w].doneSendFailure =>
              /\ thread'[w].doneSendFailure
              /\ (thread[w].state = "ACCEPT_WITH_TIMEOUT" /\ HandlerReturned(w))
                   => thread'[w].state \in {"SEND_LOCAL_CHECKPOINT", "END"}
              /\ (thread[w].state = "SEND_LOCAL_CHECKPOINT" /\ thread[w].pc = "loop")
                   => /\ localCheckpoint(w).numBlocks = -1
                      /\ localCheckpoint(w) # thread[w].checkpoint
                      /\ HandlerReturned(w) =>
                           thread'[w].state \in {"SEND_DONE_CMD",
                                                 "ACCEPT_WITH_TIMEOUT"}]_vars

\* a worker whose DONE failed has reconnected, sent the checkpoint and is
\* about to send DONE again
C10_DoneRetried ==
    \E w \in DOMAIN thread :
      /\ thread[w].doneSendFailure
      /\ thread[w].state = "SEND_DONE_CMD"
      /\ thread[w].pc = "loop"

\* the threads the funnel has elected and that have not reported yet
Elected == {w \in Workers : thread[w].pc = "funnelElected"}

\* C11 as stated: the funnel elects exactly one worker, no second call of
\* getStatus ever returns FUNNEL_START.
C11_StartReturnedOnce == controller.elections <= 1

\* C11 amended: getStatus returns FUNNEL_START only while the funnel is in
\* FUNNEL_START, at most one thread is elected at a time and the funnel is in
\* FUNNEL_PROGRESS exactly while one is; the funnel goes back to FUNNEL_START
\* only when the elected thread fails and returns ACCEPT_WITH_TIMEOUT, and
\* once it is in FUNNEL_END it stays there and nobody is elected any more.
C11_OneElectedAtATime ==
    /\ [](/\ Cardinality(Elected) <= 1
          /\ (controller.funnel = "FUNNEL_PROGRESS") <=> (Elected # {}))
    /\ [][/\ controller'.elections # controller.elections
               => controller.funnel = "FUNNEL_START"
          /\ controller.funnel = "FUNNEL_END"
               => /\ controller'.funnel = "FUNNEL_END"
                  /\ controller'.elections = controller.elections
          /\ (controller.funnel # "FUNNEL_START" /\ controller'.funnel = "FUNNEL_START")
               => \E w \in Elected :
                    /\ thread'[w].state = "ACCEPT_WITH_TIMEOUT"
                    /\ thread'[w].localError # "OK"]_vars

\* a second election has taken place and has ended with success
C11_ElectedTwice ==
    /\ controller.elections = 2
    /\ controller.funnel = "FUNNEL_END"

\* the step is the return of sendFileChunks of thread w with all the chunks
\* written and acknowledged
ChunksEmitted(w) ==
    /\ thread[w].pc = "funnelElected"
    /\ thread'[w].state = "READ_NEXT_CMD"
    /\ thread'[w].pc = "loop"

\* the step takes thread w from SEND_FILE_CHUNKS on to READ_NEXT_CMD
LeftFileChunks(w) ==
    /\ thread[w].state = "SEND_FILE_CHUNKS"
    /\ HandlerReturned(w)
    /\ thread'[w].state = "READ_NEXT_CMD"

\* the step is the entry of processFileCmd of thread w for its first FILE_CMD,
\* funnel check included
PassedFirstFileCheck(w) ==
    /\ enable_download_resumption
    /\ thread[w].state = "PROCESS_FILE_CMD"
    /\ thread[w].pc = "loop"
    /\ thread[w].numBlocks = 0
    /\ Stepped(w)
    /\ thread'[w].localError # "ABORT"

\* C12: the file chunks are emitted with success by at most one worker of the
\* session (the emission ends the only passage of the funnel to FUNNEL_END
\* that an emission can end), and no worker leaves SEND_FILE_CHUNKS for
\* READ_NEXT_CMD or passes the funnel check of its first FILE_CMD unless the
\* funnel is then in FUNNEL_END.
C12_OthersProceedAtEnd ==
    [][\A w \in DOMAIN thread :
         /\ ChunksEmitted(w)
              => /\ controller.funnel = "FUNNEL_PROGRESS"
                 /\ controller'.funnel = "FUNNEL_END"
         /\ controller.funnel = "FUNNEL_END" => controller'.funnel = "FUNNEL_END"
         /\ LeftFileChunks(w) => controller'.funnel = "FUNNEL_END"
         /\ PassedFirstFileCheck(w) => controller'.funnel = "FUNNEL_END"]_vars

\* C12 without the funnel check of the first FILE_CMD: what the loop of
\* sendFileChunks alone ensures
C12_FileChunksLoopWaits ==
    [][\A w \in DOMAIN thread :
         /\ ChunksEmitted(w)
              => /\ controller.funnel = "FUNNEL_PROGRESS"
                 /\ controller'.funnel = "FUNNEL_END"
         /\ controller.funnel = "FUNNEL_END" => controller'.funnel = "FUNNEL_END"
         /\ LeftFileChunks(w) => controller'.funnel = "FUNNEL_END"]_vars

\* the errors with which a handler returns SEND_ABORT_CMD
AbortErrors ==
    {"VERSION_MISMATCH", "VERSION_INCOMPATIBLE", "ID_MISMATCH", "FILE_WRITE_ERROR"}

\* C13: processSettingsCmd reports VERSION_MISMATCH only for a sender version
\* that differs from the version of the thread and whose negotiation gives a
\* version that is neither 0 nor the sender's; the thread then has the
\* negotiated version and goes to SEND_ABORT_CMD. SEND_ABORT_CMD goes to
\* ACCEPT_WITH_TIMEOUT with VERSION_MISMATCH and to FINISH_WITH_ERROR with
\* any other error, and FINISH_WITH_ERROR goes to END.
C13_AbortByError ==
    [][\A w \in DOMAIN thread :
         /\ (/\ thread[w].state = "PROCESS_SETTINGS_CMD"
             /\ HandlerReturned(w)
             /\ thread'[w].localError = "VERSION_MISMATCH")
              => /\ thread'[w].state = "SEND_ABORT_CMD"
                 /\ \E v \in sender[w].versions :
                      LET cur == thread[w].threadProtocolVersion
                          negotiated == negotiateProtocol(v, cur)
                      IN /\ v # cur
                         /\ negotiated \notin {0, v}
                         /\ thread'[w].threadProtocolVersion = negotiated
         /\ (thread[w].state = "SEND_ABORT_CMD" /\ HandlerReturned(w))
              => /\ thread[w].localError \in AbortErrors
                 /\ thread'[w].localError = thread[w].localError
                 /\ thread'[w].state =
                      IF thread[w].localError = "VERSION_MISMATCH"
                        THEN "ACCEPT_WITH_TIMEOUT" ELSE "FINISH_WITH_ERROR"
         /\ (thread[w].state = "FINISH_WITH_ERROR" /\ HandlerReturned(w))
              => thread'[w].state = "END"]_vars

\* a worker has sent ABORT for a version mismatch and waits for the sender to
\* connect again
C13_MismatchAwaitsRetry ==
    \E w \in Workers :
      /\ thread[w].state = "ACCEPT_WITH_TIMEOUT"
      /\ thread[w].pc = "loop"
      /\ thread[w].localError = "VERSION_MISMATCH"

\* the step is the return of a handler of thread w that has ended on a short
\* socket write
ShortWriteReturned(w) == HandlerReturned(w) /\ thread'[w].shortWrite

\* C14 as stated: a handler whose socket write is short returns at once, and
\* returns ACCEPT_WITH_TIMEOUT.
C14_ShortWriteReconnects ==
    [][\A w \in DOMAIN thread :
         ShortWriteReturned(w) => thread'[w].state = "ACCEPT_WITH_TIMEOUT"]_vars

\* C14 amended: a handler whose socket write is short returns at once; it
\* returns ACCEPT_WITH_TIMEOUT with a socket error, except sendAbortCmd,
\* which does not look at the result of its write and returns by the error
\* it was entered with: FINISH_WITH_ERROR unless that is VERSION_MISMATCH.
C14_ShortWriteReconnectsButAbort ==
    [][\A w \in DOMAIN thread :
         ShortWriteReturned(w) =>
           IF thread[w].state = "SEND_ABORT_CMD"
             THEN /\ thread'[w].localError = thread[w].localError
                  /\ thread'[w].state =
                       IF thread[w].localError = "VERSION_MISMATCH"
                         THEN "ACCEPT_WITH_TIMEOUT" ELSE "FINISH_WITH_ERROR"
             ELSE /\ thread'[w].state = "ACCEPT_WITH_TIMEOUT"
                  /\ thread'[w].localError \in TransportErrors]_vars

\* the write of ABORT was short and the worker is about to finish with the
\* error, without waiting for a new connection
C14_AbortShortThenFinish ==
    \E w \in Workers :
      /\ thread[w].shortWrite
      /\ thread[w].state = "FINISH_WITH_ERROR"
      /\ thread[w].pc = "loop"

\* thread w is between two handlers: the last handler has returned, the next
\* is not entered yet
BetweenHandlers(w) == checkFailed = "none" /\ thread[w].pc = "loop"

\* the states whose handlers readNextCmd dispatches to
ProcessStates ==
    {"PROCESS_DONE_CMD", "PROCESS_FILE_CMD", "PROCESS_SETTINGS_CMD",
     "PROCESS_SIZE_CMD"}

\* C15 as stated: between any two handlers, off_ is at least 0 and at most
\* numRead_ + oldOffset_, which is at most bufferSize_.
C15_CursorsOrdered ==
    \A w \in DOMAIN thread :
      BetweenHandlers(w) =>
        /\ 0 <= thread[w].off
        /\ thread[w].off <= thread[w].numRead + thread[w].oldOffset
        /\ thread[w].numRead + thread[w].oldOffset <= BufferSize

\* C15 amended: off_ is always within the buffer; at the entry of a handler
\* that readNextCmd dispatches to, off_ is one past oldOffset_ and at most
\* numRead_ + oldOffset_, which is at most bufferSize_; at the entry of
\* READ_NEXT_CMD, numRead_ is the number of bytes not consumed yet, and they
\* lie at off_ within the buffer.
C15_CursorsByState ==
    \A w \in DOMAIN thread :
      BetweenHandlers(w) =>
        LET t == thread[w] IN
        /\ 0 <= t.off /\ t.off <= BufferSize
        /\ t.state \in ProcessStates
             => /\ 0 <= t.oldOffset
                /\ t.off = t.oldOffset + 1
                /\ t.off <= t.numRead + t.oldOffset
                /\ t.numRead + t.oldOffset <= BufferSize
        /\ t.state = "READ_NEXT_CMD"
             => /\ 0 <= t.numRead
                /\ t.off + t.numRead <= BufferSize

\* processFileCmd has returned READ_NEXT_CMD with bytes of the next command
\* left in the buffer, and off_ is past numRead_ + oldOffset_
C15_LeftoverPastOldWindow ==
    \E w \in Workers :
      /\ BetweenHandlers(w)
      /\ thread[w].state = "READ_NEXT_CMD"
      /\ thread[w].frame.payloadAt >= 0
      /\ thread[w].numRead > 0
      /\ thread[w].off > thread[w].numRead + thread[w].oldOffset

\* C20 as stated: for a FILE_CMD whose headerLen is the number of bytes of
\* the encoded header after the length field, the assertion on the header
\* length holds.
C20_AfterLengthAsserted ==
    \A w \in DOMAIN thread :
      thread[w].frame.framing = "afterLength" => checkFailed # "headerLen"

\* C20 amended: the assertion on the header length holds for a FILE_CMD
\* whose headerLen counts the bytes from the magic byte to the end of the
\* encoded header, and the payload is then taken from the byte at that
\* distance from the magic byte, the first after the encoded header; it
\* fails for a FILE_CMD whose headerLen counts the encoded header alone.
C20_WholeFrameAsserted ==
    \A w \in DOMAIN thread :
      LET f == thread[w].frame IN
      /\ f.framing = "wholeFrame"
           => /\ checkFailed # "headerLen"
              /\ f.headerLen = FramePrefix + f.encodedLen
              /\ f.payloadAt >= 0
                   => /\ f.payloadAt = f.frameAt + f.headerLen
                      /\ f.payloadAt = f.frameAt + FramePrefix + f.encodedLen
      /\ f.framing = "afterLength"
           => /\ checkFailed = "headerLen"
              /\ f.payloadAt = -1

\* a block framed with headerLen counting the whole frame is received, the
\* frame not at the start of the buffer
C20_WholeFrameReceived ==
    \E w \in Workers :
      /\ BetweenHandlers(w)
      /\ thread[w].state = "READ_NEXT_CMD"
      /\ thread[w].frame.framing = "wholeFrame"
      /\ thread[w].frame.frameAt > 0
      /\ thread[w].frame.payloadAt > 0

\* the step is the return of processFileCmd of thread w
FileCmdReturned(w) ==
    /\ thread[w].state = "PROCESS_FILE_CMD"
    /\ HandlerReturned(w)

\* the step counts a block of thread w or adds an entry to the transfer log
BlockCounted(w) ==
    \/ thread'[w].numBlocks # thread[w].numBlocks
    \/ thread'[w].checkpoint.numBlocks # thread[w].checkpoint.numBlocks

\* C16: processFileCmd returns READ_NEXT_CMD exactly when it counts the
\* block; it then increments numBlocks of the stats and of the checkpoint by
\* one, adds one entry to the transfer log if log based resumption is on,
\* and reports no error. When it reports CHECKSUM_MISMATCH, checksums are
\* enabled, it returns ACCEPT_WITH_TIMEOUT, counts nothing and adds no
\* entry. No other step adds an entry.
C16_CountedOnlyIfVerified ==
    [][/\ \A w \in DOMAIN thread :
            /\ FileCmdReturned(w) =>
                 /\ BlockCounted(w) <=> thread'[w].state = "READ_NEXT_CMD"
                 /\ BlockCounted(w) =>
                      /\ thread'[w].numBlocks = thread[w].numBlocks + 1
                      /\ thread'[w].checkpoint.numBlocks =
                           thread[w].checkpoint.numBlocks + 1
                      /\ parent'.blockWriteEntries =
                           parent.blockWriteEntries +
                             (IF isLogBasedResumption THEN 1 ELSE 0)
                      /\ thread'[w].localError = thread[w].localError
                      /\ thread'[w].localError # "CHECKSUM_MISMATCH"
                 /\ thread'[w].localError = "CHECKSUM_MISMATCH" =>
                      /\ thread[w].enableChecksum
                      /\ thread'[w].state = "ACCEPT_WITH_TIMEOUT"
                      /\ ~BlockCounted(w)
                      /\ parent'.blockWriteEntries = parent.blockWriteEntries
            /\ (HandlerReturned(w) /\ thread[w].state # "PROCESS_FILE_CMD")
                 => thread'[w].localError # "CHECKSUM_MISMATCH"
                      \/ thread[w].localError = "CHECKSUM_MISMATCH"
       /\ parent'.blockWriteEntries # parent.blockWriteEntries
            => \E w \in DOMAIN thread : FileCmdReturned(w) /\ BlockCounted(w)]_vars

\* a block whose footer did not match is not counted and not logged, the
\* worker waits for the sender to connect again
C16_MismatchNotCounted ==
    \E w \in Workers :
      /\ thread[w].state = "ACCEPT_WITH_TIMEOUT"
      /\ thread[w].pc = "loop"
      /\ thread[w].localError = "CHECKSUM_MISMATCH"
      /\ thread[w].numBlocks = 0
      /\ thread[w].checkpoint.numBlocks = 0
      /\ parent.blockWriteEntries = 0

\* the step is the return of processFileCmd of thread w because the
\* connection ended before the whole payload of the block was written
PayloadCutShort(w) ==
    /\ thread[w].pc = "processFileLoop"
    /\ thread[w].block.written < DataSize
    /\ HandlerReturned(w)
    /\ thread'[w].localError = "SOCKET_READ_ERROR"

\* C17: when the connection ends with b < dataSize bytes of a block written,
\* a thread at version CHECKPOINT_OFFSET_VERSION or later records the block
\* and b as the last block of its checkpoint, counts no block and returns
\* ACCEPT_WITH_TIMEOUT; ACCEPT_WITH_TIMEOUT, once a connection is accepted
\* after an error, returns SEND_LOCAL_CHECKPOINT, not READ_NEXT_CMD, and
\* neither state changes the checkpoint, which is the one
\* SEND_LOCAL_CHECKPOINT sends.
C17_PartialBlockAdvertised ==
    [][\A w \in DOMAIN thread :
         /\ PayloadCutShort(w) =>
              /\ thread'[w].state = "ACCEPT_WITH_TIMEOUT"
              /\ thread'[w].numBlocks = thread[w].numBlocks
              /\ thread'[w].checkpoint.numBlocks = thread[w].checkpoint.numBlocks
              /\ thread[w].threadProtocolVersion >= CHECKPOINT_OFFSET_VERSION
                   => thread'[w].checkpoint.lastBlock =
                        [seqId |-> thread[w].block.seqId,
                         written |-> thread[w].block.written]
         /\ ( /\ thread[w].state = "ACCEPT_WITH_TIMEOUT"
              /\ HandlerReturned(w)
              /\ thread[w].localError # "OK"
              /\ ~thread[w].doneSendFailure )
              => /\ thread'[w].state \in
                      {"SEND_LOCAL_CHECKPOINT", "FINISH_WITH_ERROR", "END"}
                 /\ thread'[w].checkpoint = thread[w].checkpoint
                 /\ thread'[w].state = "SEND_LOCAL_CHECKPOINT"
                      => thread'[w].localError = "OK"
         /\ ( /\ thread[w].state = "SEND_LOCAL_CHECKPOINT"
              /\ thread[w].pc = "loop"
              /\ ~thread[w].doneSendFailure )
              => /\ localCheckpoint(w) = thread[w].checkpoint
                 /\ HandlerReturned(w)
                      => thread'[w].checkpoint = thread[w].checkpoint]_vars

\* a worker that lost the connection in the middle of a block has accepted
\* a new one and is about to send the checkpoint with the bytes written
C17_AboutToAdvertise ==
    \E w \in Workers :
      /\ thread[w].state = "SEND_LOCAL_CHECKPOINT"
      /\ thread[w].pc = "loop"
      /\ ~thread[w].doneSendFailure
      /\ thread[w].checkpoint.numBlocks = 0
      /\ localCheckpoint(w).lastBlock.seqId \in SeqIds
      /\ localCheckpoint(w).lastBlock.written \in 1..(DataSize - 1)

\* the step is the decision of thread w, in WAIT_FOR_FINISH_OR_NEW_CHECKPOINT,
\* to send DONE
DecidedDone(w) ==
    /\ thread[w].state = "WAIT_FOR_FINISH_OR_NEW_CHECKPOINT"
    /\ HandlerReturned(w)
    /\ thread'[w].state = "SEND_DONE_CMD"

\* C18: a worker decides to send DONE, and marks itself FINISHED, only when
\* the parent holds no checkpoint beyond its checkpointIndex and no other
\* registered thread is RUNNING; every checkpoint the parent holds then lies
\* below checkpointIndex, the last of them in the batch the worker has sent
\* last. With a checkpoint beyond checkpointIndex the worker leaves the state
\* for SEND_GLOBAL_CHECKPOINTS, with all of them as its batch.
C18_DoneOnlyWhenAllSettled ==
    [][\A w \in DOMAIN thread :
         /\ DecidedDone(w) =>
              /\ getNewCheckpoints(thread[w].checkpointIndex) = <<>>
              /\ ~hasThreads(w, "RUNNING")
              /\ controller'.threadState[w] = "FINISHED"
              /\ Len(parent.checkpoints) = thread[w].checkpointIndex
              /\ parent.checkpoints # <<>> =>
                   /\ thread[w].sentGlobal # <<>>
                   /\ thread[w].sentGlobal =
                        SubSeq(parent.checkpoints,
                               Len(parent.checkpoints) - Len(thread[w].sentGlobal) + 1,
                               Len(parent.checkpoints))
         /\ ( /\ thread[w].state = "WAIT_FOR_FINISH_OR_NEW_CHECKPOINT"
              /\ thread[w].pc \in {"waitAcquire", "waitSleep"}
              /\ Stepped(w)
              /\ getNewCheckpoints(thread[w].checkpointIndex) # <<>> )
              => /\ thread'[w].state = "SEND_GLOBAL_CHECKPOINTS"
                 /\ thread'[w].newCheckpoints =
                      getNewCheckpoints(thread[w].checkpointIndex)]_vars

\* a worker has sent the checkpoints of both its siblings, which ended with
\* an error, and is about to send DONE
C18_DoneAfterCheckpoints ==
    \E w \in Workers :
      /\ thread[w].state = "SEND_DONE_CMD"
      /\ thread[w].pc = "loop"
      /\ ~thread[w].doneSendFailure
      /\ Len(parent.checkpoints) = 2
      /\ thread[w].checkpointIndex = 2
      /\ controller.threadState[w] = "FINISHED"

\* the states whose handlers read from, write to, accept on or close a
\* socket in the step that enters them, and the places inside the handlers
\* where they do
SocketStates ==
    {"LISTEN", "ACCEPT_WITH_TIMEOUT", "SEND_LOCAL_CHECKPOINT", "READ_NEXT_CMD",
     "PROCESS_FILE_CMD", "SEND_FILE_CHUNKS", "SEND_GLOBAL_CHECKPOINTS",
     "SEND_ABORT_CMD", "SEND_DONE_CMD", "FINISH_WITH_ERROR"}
SocketLabels ==
    {"acceptFirstLoop", "processFileLoop", "funnelWait", "funnelElected",
     "waitKeepAlive"}

\* the step is one in which thread w uses its socket
SocketStep(w) ==
    /\ Stepped(w)
    /\ \/ thread[w].pc \in SocketLabels
       \/ thread[w].pc = "loop" /\ thread[w].state \in SocketStates

\* the threads whose guard holds the mutex of the condition variable
Holders == {w \in Workers : thread[w].holdsCv}

\* C19: at most one thread holds the mutex of the condition variable, and
\* a thread that uses its socket does not hold it before or after the step:
\* the WAIT that keeps the sender alive is written with the guard gone, and
\* finishWithError has closed the sockets when it acquires the mutex.
C19_NoSocketUnderMutex ==
    /\ [](Cardinality(Holders) <= 1)
    /\ [][\A w \in DOMAIN thread :
            /\ SocketStep(w) => ~thread[w].holdsCv /\ ~thread'[w].holdsCv
            /\ thread[w].holdsCv => thread[w].pc \in
                  {"waitHeld", "waitWoken", "finishHeld"}]_vars

\* a worker is about to write the WAIT that keeps its sender alive while a
\* sibling, its sockets closed, holds the mutex to add its checkpoint
C19_KeepAliveBesideHolder ==
    \E w, v \in Workers :
      /\ thread[w].pc = "waitKeepAlive"
      /\ ~thread[w].holdsCv
      /\ thread[v].pc = "finishHeld"
      /\ thread[v].holdsCv

\* the step is an iteration of the packet loop of thread w that has written
\* its packet whole
PacketWritten(w) ==
    /\ thread[w].pc = "packets"
    /\ thread'[w].pc = "packets"
    /\ Stepped(w)

Finished(w) ==
    /\ thread[w].state = "END"
    /\ thread[w].pc = "done"
    /\ controller.threadState[w] = "FINISHED"

\* C22: in a session in which every sender sends settings, its blocks and
\* DONE and acknowledges the DONE of the receiver, without error or abort,
\* every worker in the end marks itself FINISHED and reaches END.
C22_AllFinish == <>(\A w \in DOMAIN thread : Finished(w))

\* both workers are over, each after it received a block
C22_FinishedWithBlocks ==
    \A w \in DOMAIN thread : Finished(w) /\ thread[w].numBlocks = MaxBlocks

\* C23: a worker whose state is FINISH_WITH_ERROR has a local error code
\* that is not OK, whichever handler returned that state, so the check at
\* the start of finishWithError holds.
C23_FinishWithErrorHasError ==
    \A w \in DOMAIN thread :
      thread[w].state = "FINISH_WITH_ERROR" => thread[w].localError # "OK"

\* a worker is about to run finishWithError after sendAbortCmd sent the
\* mismatch of the transfer id
C23_FinishAfterAbortCmd ==
    \E w \in DOMAIN thread :
      /\ thread[w].state = "FINISH_WITH_ERROR"
      /\ thread[w].pc = "loop"
      /\ thread[w].localError = "ID_MISMATCH"

\* C24: a worker in WAIT_FOR_FINISH_OR_NEW_CHECKPOINT or SEND_FILE_CHUNKS
\* has received settings, senderReadTimeout is positive, and the check
\* "must have received settings" has not failed, whatever the order of the
\* commands of the sender.
C24_SettingsBeforeWait ==
    /\ checkFailed # "senderReadTimeout"
    /\ \A w \in DOMAIN thread :
         thread[w].state \in {"WAIT_FOR_FINISH_OR_NEW_CHECKPOINT",
                              "SEND_FILE_CHUNKS"}
           => thread[w].senderReadTimeout > 0

\* C25: every call of readAtLeast satisfies its preconditions: none of the
\* checks at its entry fails, in readNextCmd, in the read that completes the
\* header and in the read of the footer, and the bytes readNextCmd already
\* holds are no more than the room it passes.
C25_ReadAtLeastCallsChecked ==
    /\ checkFailed # "readAtLeast"
    /\ \A w \in DOMAIN thread :
         (thread[w].state = "READ_NEXT_CMD" /\ thread[w].pc = "loop") =>
           /\ readAtLeastChecks(BufferSize - thread[w].off, kMinBufLength,
                                thread[w].numRead)
           /\ thread[w].numRead <= BufferSize - thread[w].off

\* the positions oldOffset .. oldOffset + numRead - 1 of the buffer of
\* thread w hold consecutive bytes of the stream, all inside the buffer
Stitched(w) ==
    LET t == thread[w] IN
    \A i \in 0..(t.numRead - 1) :
      /\ t.oldOffset + i < BufferSize
      /\ t.buf[t.oldOffset + i] >= 0
      /\ t.buf[t.oldOffset + i] = t.buf[t.oldOffset] + i

\* C26: after processFileCmd has read on to complete the header, the bytes
\* it read lie right behind the bytes it held: the numRead bytes from
\* oldOffset on are the next bytes of the stream in order, without a gap.
C26_TopUpStitched ==
    \A w \in DOMAIN thread :
      (thread[w].pc = "header" /\ thread[w].toppedUp) => Stitched(w)

\* the handler that thread w ran last has returned END or FAILED and the
\* thread has not left start() yet
LoopEnded(w) ==
    /\ thread[w].state \in {"END", "FAILED"}
    /\ thread[w].pc \in {"loop", "guard"}

CheckpointAdded(w) ==
    \E i \in DOMAIN parent.checkpoints : parent.checkpoints[i].port = w

\* C28: a thread whose state loop has ended in END while no abort code is
\* set is marked FINISHED in the controller before it deregisters, and if it
\* ended with an error without having reached SEND_DONE_CMD its checkpoint
\* is in the list of the parent.
C28_EndIsFinished ==
    \A w \in DOMAIN thread :
      (/\ thread[w].state = "END"
       /\ thread[w].pc \in {"loop", "guard"}
       /\ parent.abortCode = "OK") =>
        /\ controller.threadState[w] = "FINISHED"
        /\ (thread[w].localError # "OK" /\ ~thread[w].doneSendFailure) =>
             CheckpointAdded(w)

====
